---- MODULE Spec2Model ----
(***************************************************************************)
(* Asset download engine of the Poliigon add-on core                       *)
(* (modules/poliigon_core/addon.py, api.py, thread_manager.py,             *)
(* asset_index.py).                                                        *)
(*                                                                         *)
(* Threads of the program and their steps:                                 *)
(*   - the calling (UI) thread: queue_download (two steps: the entry is    *)
(*     written and the run submitted, then the future is stored) and the   *)
(*     recording of a user cancel in download_cancelled;                   *)
(*   - one download_asset run per queue_download call, executed by the     *)
(*     ASSET_DL pool; its steps are the blocking points of the code (the   *)
(*     URL round trip, one poll iteration, the wait in cancel_downloads);  *)
(*   - one download_asset_file thread per FileDownload of an attempt.      *)
(* Sizes are counted in chunks of the streaming loop.                      *)
(***************************************************************************)
EXTENDS Integers, Sequences, FiniteSets, TLC

\* ----- program constants (addon.py) -----
MAX_DOWNLOAD_RETRIES == 10
MAX_PARALLEL_ASSET_DOWNLOADS == 2
MAX_PARALLEL_DOWNLOADS_PER_ASSET == 8

\* ----- bounds of the model -----
NumAssets == 1        \* asset ids 1..NumAssets, all present in the Asset Index
MaxEvents == 3        \* events of the environment in one behaviour:
                      \* queue_download calls, user cancel presses and
                      \* faults (URL resolution answered with ok=false, with
                      \* an empty list or raising; failed stream request,
                      \* missing Content-Length, write error, short stream,
                      \* timeout of the cancel wait)
NumFD == 2            \* descriptors of the FileDownload call-order harness
NumPoolFiles == 9     \* files per asset in the specification of the pools
MaxPoolRuns == 3      \* queue_download calls in the specification of the pools
MaxSortLen == 3       \* length of the download lists given to schedule_downloads
MaxSortSize == 3      \* size_expected of their files: 1..MaxSortSize

\* The remote file set of every asset, in the order the server lists it;
\* the entry is size_expected in chunks.
FileSizes == <<2, 1>>

Assets == 1..NumAssets
Files == 1..Len(FileSizes)
Absent == -1          \* "no such path on disk"
NoEntry == -1         \* asset_id not a key of download_queue

VARIABLES
    download_queue,     \* [Assets -> NoEntry | 0 (no "future" key yet) | run]
    download_cancelled, \* set of asset ids
    runs,               \* sequence of download_asset runs, in submit order
    temp,               \* [Assets \X Files -> bytes | Absent]: <filename>dl
    final,              \* [Assets \X Files -> bytes | Absent]: <filename>
    is_local,           \* [Assets -> "None" | "True" | "False"] (Asset Index)
    ui,                 \* the calling thread inside queue_download
    env,                \* events the environment may still produce
    fd,                 \* FileDownload call-order harness: statuses, the
                        \* lock and the two calling threads
    unit                \* the object under test in the specifications of a
                        \* single class or function (<<>> elsewhere)

vars == <<download_queue, download_cancelled, runs, temp, final, is_local,
          ui, env, fd, unit>>

\* ----- api.py: DownloadStatus, FileDownload -----
DownloadStatus == {"INITIALIZED", "WAITING", "ONGOING", "CANCELLED", "DONE", "ERROR"}

\* fut: "none" (not submitted), "pending", "running", "cancelled", "done".
\* stream_size: the local of download_asset_file, 0 outside the streaming.
\* pc: position of download_asset_file; the ret_* and "raised" values say
\* through which return (or raise) the thread left the function.
FileDownload(a, f) ==
    [asset_id |-> a, file |-> f, size_expected |-> FileSizes[f],
     size_downloaded |-> 0, status |-> "INITIALIZED", fut |-> "none",
     pc |-> "-", stream_size |-> 0]

set_status_cancelled(d) ==
    IF d.status # "DONE" /\ d.status # "ERROR"
    THEN [d EXCEPT !.status = "CANCELLED"]
    ELSE d

\* set_status_ongoing without the check for a recorded cancellation.
set_status_ongoing_unguarded(d) ==
    [d |-> [d EXCEPT !.status = "ONGOING"], res |-> TRUE]

\* Returns the descriptor after the call and the call's result.
set_status_ongoing(d) ==
    IF d.status # "CANCELLED"
    THEN [d |-> [d EXCEPT !.status = "ONGOING"], res |-> TRUE]
    ELSE [d |-> d, res |-> FALSE]

set_status_error(d) == [d EXCEPT !.status = "ERROR"]

set_status_done(d) == [d EXCEPT !.status = "DONE"]

\* Future.done(): finished or cancelled.
FutDone(d) == d.fut \in {"done", "cancelled"}
\* Future.exception() is not None
FutExc(d) == d.fut = "done" /\ d.pc = "raised"
\* Future.result().ok
ResOk(d) == d.fut = "done" /\ d.pc \in {"ret_exists", "ret_ok"}

\* Future.cancel(): only a future that has not started is cancelled.
FutCancel(d) == IF d.fut = "pending" THEN [d EXCEPT !.fut = "cancelled"] ELSE d

Min(S) == CHOOSE x \in S : \A y \in S : x <= y

\* ----- addon.py: helpers of download_asset -----

\* list.sort(key=size_expected): stable, ascending.
RECURSIVE InsertBySize(_, _)
InsertBySize(d, s) ==
    IF s = <<>> THEN <<d>>
    ELSE IF d.size_expected <= Head(s).size_expected THEN <<d>> \o s
    ELSE <<Head(s)>> \o InsertBySize(d, Tail(s))

RECURSIVE SortBySize(_)
SortBySize(s) ==
    IF s = <<>> THEN <<>> ELSE InsertBySize(Head(s), SortBySize(Tail(s)))

\* download_asset_get_urls on success: one FileDownload per listed file.
UrlList(a) == [f \in Files |-> FileDownload(a, f)]

RECURSIVE SumSizeExpected(_)
SumSizeExpected(s) ==
    IF s = <<>> THEN 0 ELSE Head(s).size_expected + SumSizeExpected(Tail(s))

\* schedule_downloads without the sort.
schedule_downloads_unsorted(dl_list) ==
    [i \in DOMAIN dl_list |->
        [dl_list[i] EXCEPT !.status = "WAITING", !.fut = "pending"]]

\* schedule_downloads: sort, then per file WAITING and submit to tpe.
schedule_downloads(dl_list) ==
    LET sorted == SortBySize(dl_list)
    IN  [i \in DOMAIN sorted |->
            [sorted[i] EXCEPT !.status = "WAITING", !.fut = "pending"]]

\* check_downloads: the scan stops at the first finished future whose
\* result() raises or is not ok.
FutResultRaises(d) == d.fut = "cancelled" \/ FutExc(d)

RECURSIVE SumSizeDownloaded(_, _)
SumSizeDownloaded(dl, n) ==
    IF n = 0 THEN 0 ELSE dl[n].size_downloaded + SumSizeDownloaded(dl, n - 1)

check_downloads(dl) ==
    LET bad == {i \in DOMAIN dl : FutDone(dl[i]) /\ ~ResOk(dl[i])}
        stop == IF bad = {} THEN Len(dl) ELSE Min(bad)
        raised == bad # {} /\ FutResultRaises(dl[stop])
    IN  [raised |-> raised,
         any_error |-> bad # {} /\ ~raised,
         all_done |-> bad = {} /\ \A i \in DOMAIN dl : FutDone(dl[i]),
         size_downloaded |-> SumSizeDownloaded(dl, stop)]

\* cancel_downloads, first loop: set_status_cancelled and fut.cancel().
cancel_downloads(dl) ==
    [i \in DOMAIN dl |-> FutCancel(set_status_cancelled(dl[i]))]

\* cancel_downloads, second loop: fut.result(timeout=60) of every future that
\* is not cancelled, in list order.  It blocks at the first unfinished future
\* and re-raises the exception of a finished one.
CancelWaitBlockedAt(dl) ==
    LET open == {i \in DOMAIN dl : ~FutDone(dl[i])}
    IN  IF open = {} THEN Len(dl) + 1 ELSE Min(open)

CancelWaitRaises(dl) ==
    \E i \in DOMAIN dl : i < CancelWaitBlockedAt(dl) /\ FutExc(dl[i])

\* cancel_downloads returning without the wait for unfinished futures.
CancelWaitReturns_nowait(dl) == ~CancelWaitRaises(dl)

CancelWaitReturns(dl) ==
    CancelWaitBlockedAt(dl) = Len(dl) + 1 /\ ~CancelWaitRaises(dl)

\* rename_downloads: os.rename(path_temp, path_final) where the temp file
\* exists, nothing otherwise.
RenamedFiles(dl, tmp) ==
    {<<dl[i].asset_id, dl[i].file>> : i \in {j \in DOMAIN dl :
        tmp[<<dl[j].asset_id, dl[j].file>>] # Absent}}

rename_temp(dl, tmp) ==
    [p \in DOMAIN tmp |-> IF p \in RenamedFiles(dl, tmp) THEN Absent ELSE tmp[p]]

rename_final(dl, tmp, fin) ==
    [p \in DOMAIN fin |-> IF p \in RenamedFiles(dl, tmp) THEN tmp[p] ELSE fin[p]]

\* update_asset_data / AssetIndex.update_from_directory: only files without
\* the temp suffix are classified; files found => is_local = True.
FilesFound(a, fin) == \E f \in Files : fin[<<a, f>>] # Absent

update_asset_data(a, fin, loc) ==
    IF FilesFound(a, fin) THEN [loc EXCEPT ![a] = "True"] ELSE loc

\* ----- state after construction -----
NewRun(a) ==
    [asset |-> a, pc |-> "pending", retries |-> MAX_DOWNLOAD_RETRIES,
     all_done |-> FALSE, any_error |-> FALSE, user_cancel |-> FALSE,
     dl |-> <<>>]

Init ==
    /\ download_queue = [a \in Assets |-> NoEntry]
    /\ download_cancelled = {}
    /\ runs = <<>>
    /\ temp = [p \in Assets \X Files |-> Absent]
    /\ final = [p \in Assets \X Files |-> Absent]
    /\ is_local = [a \in Assets |-> "None"]
    /\ ui = [pc |-> "idle", asset |-> 0, run |-> 0, raised |-> FALSE]
    /\ env = [events |-> MaxEvents]
    /\ fd = <<>>
    /\ unit = <<>>

\* env holds what the environment may still do in this behaviour.
Event == env.events > 0
UseEvent == [env EXCEPT !.events = @ - 1]

\* ----- the calling thread -----

\* Asset ids are interchangeable: an id is first used (queued or cancelled)
\* only after every smaller id has been used.
UsedAssets == {runs[r].asset : r \in DOMAIN runs} \cup download_cancelled
Usable(a) == \A b \in Assets : b < a => b \in UsedAssets

\* queue_download, lines 391-397: write the entry, submit download_asset.
QueueDownload(a) ==
    /\ ui.pc = "idle"
    /\ Usable(a)
    /\ Event /\ env' = UseEvent
    /\ download_queue' = [download_queue EXCEPT ![a] = 0]
    /\ runs' = Append(runs, NewRun(a))
    /\ ui' = [ui EXCEPT !.pc = "set_future", !.asset = a, !.run = Len(runs) + 1]
    /\ UNCHANGED <<download_cancelled, temp, final, is_local, fd, unit>>

\* queue_download, line 398: download_queue[asset_id]["future"] = future.
QueueDownloadFuture ==
    /\ ui.pc = "set_future"
    /\ IF download_queue[ui.asset] # NoEntry
       THEN /\ download_queue' = [download_queue EXCEPT ![ui.asset] = ui.run]
            /\ ui' = [ui EXCEPT !.pc = "idle", !.asset = 0, !.run = 0]
       ELSE /\ ui' = [pc |-> "idle", asset |-> 0, run |-> 0,
                      raised |-> TRUE]  \* KeyError
            /\ UNCHANGED download_queue
    /\ UNCHANGED <<download_cancelled, runs, temp, final, is_local, env, fd, unit>>

\* The user presses cancel: the asset id is recorded in download_cancelled,
\* which should_continue_asset_download reads.  The code that adds to the
\* set is in the add-on's UI layer, outside poliigon_core; the step follows
\* the specification ("a cancel request for an asset is recorded in a
\* cancelled set").
UserCancel(a) ==
    /\ ui.pc = "idle"
    /\ Usable(a)
    /\ Event /\ env' = UseEvent
    /\ download_cancelled' = download_cancelled \cup {a}
    /\ UNCHANGED <<download_queue, runs, temp, final, is_local, ui, fd, unit>>

\* ----- download_asset: one run of the ASSET_DL pool -----
\* pc of a run: "pending" (submitted, not started), then the blocking points
\* of the code: "resolving" (URL round trip, line 449), "poll" (sleep, line
\* 469), "cancel_wait" (fut.result in cancel_downloads, line 718), "finish"
\* (lines 493-506 not yet executed); ends: "done" (returned True),
\* "returned" (early return), "raised" (left by an exception).
RunIds == DOMAIN runs
RunEnded(run) == run.pc \in {"done", "returned", "raised"}
RunExecuting(run) == run.pc # "pending" /\ ~RunEnded(run)

\* The end of a run: its locals go with the return or the exception; the
\* FileDownload list of a run left by an exception lives on in its file
\* threads, which keep running on the run's executor.
EndRun(run, how) ==
    [NewRun(run.asset) EXCEPT
        !.pc = how, !.dl = IF how = "raised" THEN run.dl ELSE <<>>]

\* download_update: its return value is should_continue_asset_download.
download_update(a) == a \notin download_cancelled

\* the loop condition with >= in place of >
LoopHead_once_more(run) ==
    IF ~run.all_done /\ ~run.user_cancel /\ run.retries >= 0
    THEN [run EXCEPT !.pc = "resolving",
                     !.user_cancel = ~download_update(run.asset)]
    ELSE [run EXCEPT !.pc = "finish"]

\* Lines 445-446: the loop condition and the first download_update, whose
\* result is assigned to user_cancel; the URL request follows.
LoopHead(run) ==
    IF ~run.all_done /\ ~run.user_cancel /\ run.retries > 0
    THEN [run EXCEPT !.pc = "resolving",
                     !.user_cancel = ~download_update(run.asset)]
    ELSE [run EXCEPT !.pc = "finish"]

\* Lines 402-446: a worker of the pool (MAX_PARALLEL_ASSET_DOWNLOADS workers,
\* first submitted first) picks the run up; cancelled-before-start check.
RunStart(r) ==
    LET run == runs[r]
        a == run.asset
    IN  /\ run.pc = "pending"
        /\ \A q \in RunIds : q < r => runs[q].pc # "pending"
        /\ Cardinality({q \in RunIds : RunExecuting(runs[q])})
              < MAX_PARALLEL_ASSET_DOWNLOADS
        /\ IF a \in download_cancelled
           THEN IF download_queue[a] # NoEntry
                THEN /\ download_queue' = [download_queue EXCEPT ![a] = NoEntry]
                     /\ download_cancelled' = download_cancelled \ {a}
                     /\ runs' = [runs EXCEPT ![r] = EndRun(run, "returned")]
                ELSE \* del self.download_queue[asset_id]: KeyError
                     /\ runs' = [runs EXCEPT ![r] = EndRun(run, "raised")]
                     /\ UNCHANGED <<download_queue, download_cancelled>>
           ELSE /\ IF download_queue[a] = NoEntry
                   THEN runs' = [runs EXCEPT ![r] = EndRun(run, "returned")]
                   ELSE runs' = [runs EXCEPT ![r] = LoopHead(run)]
                /\ UNCHANGED <<download_queue, download_cancelled>>
        /\ UNCHANGED <<temp, final, is_local, ui, env, fd, unit>>

\* Lines 449-465: get_download_list returns (or raises), second
\* download_update, then break / retry / schedule_downloads.
\* res: "fail" (ok=false, dl_list None), "raise" (download_asset_get_urls
\* raises RuntimeError), "empty" (ok=true, no files), "list".
RunResolved(r, res) ==
    LET run == runs[r]
        cancel == ~download_update(run.asset)
    IN  /\ run.pc = "resolving"
        /\ IF res = "list" THEN UNCHANGED env ELSE Event /\ env' = UseEvent
        /\ IF res = "raise"
           THEN runs' = [runs EXCEPT ![r] = EndRun(run, "raised")]
           ELSE IF cancel
           THEN runs' = [runs EXCEPT ![r].pc = "finish",
                             ![r].user_cancel = TRUE]
           ELSE IF res = "fail"
           THEN runs' = [runs EXCEPT ![r] =
                    LoopHead([run EXCEPT !.user_cancel = FALSE,
                                         !.retries = @ - 1])]
           ELSE runs' = [runs EXCEPT ![r].pc = "poll",
                             ![r].user_cancel = FALSE,
                             ![r].dl = schedule_downloads(
                                 IF res = "empty" THEN <<>>
                                 ELSE UrlList(run.asset))]
        /\ UNCHANGED <<download_queue, download_cancelled, temp, final,
                       is_local, ui, fd, unit>>

\* Lines 468-488: one iteration of the polling loop.
RunPoll(r) ==
    LET run == runs[r]
        cd == check_downloads(run.dl)
        cancel == ~download_update(run.asset)
    IN  /\ run.pc = "poll"
        /\ IF cd.raised \/ SumSizeExpected(run.dl) = 0
           THEN \* fut.result() re-raises; size_downloaded / size_asset
                \* raises ZeroDivisionError
                runs' = [runs EXCEPT ![r] = EndRun(run, "raised")]
           ELSE IF cd.all_done /\ ~cd.any_error
           THEN runs' = [runs EXCEPT ![r] =
                    LoopHead([run EXCEPT !.retries = -1,
                                         !.all_done = TRUE,
                                         !.any_error = FALSE,
                                         !.user_cancel = cancel])]
           ELSE IF cd.any_error \/ cancel
           THEN runs' = [runs EXCEPT ![r].pc = "cancel_wait",
                             ![r].all_done = cd.all_done,
                             ![r].any_error = cd.any_error,
                             ![r].user_cancel = cancel,
                             ![r].dl = cancel_downloads(run.dl)]
           ELSE runs' = [runs EXCEPT ![r].all_done = cd.all_done,
                             ![r].any_error = cd.any_error,
                             ![r].user_cancel = cancel]
        /\ UNCHANGED <<download_queue, download_cancelled, temp, final,
                       is_local, ui, env, fd, unit>>

\* Lines 713-727 and 488: the wait of cancel_downloads ends.
\* timeout: fut.result(timeout=60) gives up on an unfinished future and the
\* handler re-raises.
RunCancelWait(r, timeout) ==
    LET run == runs[r]
    IN  /\ run.pc = "cancel_wait"
        /\ IF timeout
           THEN /\ ~CancelWaitRaises(run.dl)
                /\ CancelWaitBlockedAt(run.dl) <= Len(run.dl)
                /\ Event /\ env' = UseEvent
                /\ runs' = [runs EXCEPT ![r] = EndRun(run, "raised")]
           ELSE /\ UNCHANGED env
                /\ \/ /\ CancelWaitRaises(run.dl)
                      /\ runs' = [runs EXCEPT ![r] = EndRun(run, "raised")]
                   \/ /\ CancelWaitReturns(run.dl)
                      /\ runs' = [runs EXCEPT ![r] =
                            LoopHead([run EXCEPT !.retries = @ - 1])]
        /\ UNCHANGED <<download_queue, download_cancelled, temp, final,
                       is_local, ui, fd, unit>>

\* Lines 493-524: rename on success, update the index, clear bookkeeping.
\* The FileDownload list is a local of the run and goes with its return.
RunFinish(r) ==
    LET run == runs[r]
        a == run.asset
        success == run.all_done /\ ~run.any_error /\ ~run.user_cancel
        tmp2 == IF success THEN rename_temp(run.dl, temp) ELSE temp
        fin2 == IF success THEN rename_final(run.dl, temp, final) ELSE final
    IN  /\ run.pc = "finish"
        /\ temp' = tmp2
        /\ final' = fin2
        /\ is_local' = update_asset_data(a, fin2, is_local)
        /\ download_queue' = [download_queue EXCEPT ![a] = NoEntry]
        /\ download_cancelled' = download_cancelled \ {a}
        /\ runs' = [runs EXCEPT ![r] = EndRun(run, "done")]
        /\ UNCHANGED <<ui, env, fd, unit>>

\* ----- api.py: download_asset_file, one thread per FileDownload -----
Path(d) == <<d.asset_id, d.file>>

\* Lines 1126-1142: after the streaming loop.
finish_stream(d) ==
    IF d.size_expected = d.size_downloaded /\ d.size_downloaded = d.stream_size
    THEN [set_status_done(d) EXCEPT !.fut = "done", !.pc = "ret_ok",
                                    !.stream_size = 0]
    ELSE [d EXCEPT !.fut = "done", !.pc = "ret_mismatch", !.stream_size = 0]

\* The already-exists test looking at the final path only.
file_exists_final_only(d) == final[Path(d)] # Absent

\* Lines 1062-1063: os.path.exists of the temp path or of the final path.
file_exists(d) == temp[Path(d)] # Absent \/ final[Path(d)] # Absent

\* Lines 1062-1091: a worker of the run's ThreadPoolExecutor
\* (MAX_PARALLEL_DOWNLOADS_PER_ASSET workers, first submitted first) starts
\* the file; already-exists shortcut, else the stream request.
\* out: "stream" (opened), "request" (ok=false), "nolength" (KeyError on
\* the Content-Length header), "short" (the server announces and sends
\* fewer bytes than size_expected).
FileStart(r, i, out) ==
    LET d == runs[r].dl[i]
        exists == file_exists(d)
    IN  /\ d.fut = "pending"
        /\ \A j \in 1..(i - 1) : runs[r].dl[j].fut # "pending"
        /\ Cardinality({j \in DOMAIN runs[r].dl : runs[r].dl[j].fut = "running"})
              < MAX_PARALLEL_DOWNLOADS_PER_ASSET
        /\ IF exists
           THEN /\ out = "stream"
                /\ runs' = [runs EXCEPT ![r].dl[i] =
                      [set_status_done(d) EXCEPT
                          !.size_downloaded = d.size_expected,
                          !.fut = "done", !.pc = "ret_exists"]]
                /\ UNCHANGED env
           ELSE /\ IF out = "stream" THEN UNCHANGED env
                   ELSE Event /\ env' = UseEvent
                /\ runs' = [runs EXCEPT ![r].dl[i] =
                      CASE out = "request" ->
                              [d EXCEPT !.fut = "done", !.pc = "ret_request"]
                        [] out = "nolength" ->
                              [d EXCEPT !.fut = "done", !.pc = "raised"]
                        [] out = "short" ->
                              [d EXCEPT !.fut = "running", !.pc = "opened",
                                        !.stream_size = d.size_expected - 1]
                        [] OTHER ->
                              [d EXCEPT !.fut = "running", !.pc = "opened",
                                        !.stream_size = d.size_expected]]
        /\ UNCHANGED <<download_queue, download_cancelled, temp, final,
                       is_local, ui, fd, unit>>

\* Lines 1093-1106: set_status_ongoing, then the temp file is opened "wb".
FileOngoing(r, i) ==
    LET d == runs[r].dl[i]
        so == set_status_ongoing(d)
    IN  /\ d.pc = "opened"
        /\ IF ~so.res
           THEN /\ runs' = [runs EXCEPT ![r].dl[i] =
                      [so.d EXCEPT !.fut = "done", !.pc = "ret_nostart",
                                   !.stream_size = 0]]
                /\ UNCHANGED temp
           ELSE /\ runs' = [runs EXCEPT ![r].dl[i] =
                      [so.d EXCEPT !.size_downloaded = 0, !.pc = "stream"]]
                /\ temp' = [temp EXCEPT ![Path(d)] = 0]
        /\ UNCHANGED <<download_queue, download_cancelled, final, is_local,
                       ui, env, fd, unit>>

\* The streaming loop without the status check after the write.
StreamEnds_unchecked(d) == d.size_downloaded + 1 >= d.stream_size

\* Lines 1107-1113: the loop is left after the chunk in hand when the stream
\* is exhausted or the status read after the write is CANCELLED.
StreamEnds(d) ==
    d.status = "CANCELLED" \/ d.size_downloaded + 1 >= d.stream_size

\* Lines 1107-1137: one turn of the streaming loop; when the loop ends
\* (stream exhausted or CANCELLED seen after the write) the size check
\* follows.  A write goes to the temp path if it still exists.
\* oserr: the write raises OSError (disk full, connection reset).
FileChunk(r, i, oserr) ==
    LET d == runs[r].dl[i]
        n == d.size_downloaded + 1
        more == d.size_downloaded < d.stream_size
        wrote == [d EXCEPT !.size_downloaded = n]
        over == IF more THEN wrote ELSE d
        stop == StreamEnds(d)
        after == IF stop THEN finish_stream(over) ELSE over
    IN  /\ d.pc = "stream"
        /\ IF oserr
           THEN /\ more /\ Event /\ env' = UseEvent
                /\ runs' = [runs EXCEPT ![r].dl[i] =
                      [set_status_error(wrote) EXCEPT
                          !.fut = "done", !.pc = "ret_write",
                          !.stream_size = 0]]
                /\ UNCHANGED temp
           ELSE /\ UNCHANGED env
                /\ IF after.pc = "ret_mismatch" /\ temp[Path(d)] = Absent
                   THEN \* os.remove raises FileNotFoundError
                        runs' = [runs EXCEPT ![r].dl[i] =
                                     [after EXCEPT !.pc = "raised"]]
                   ELSE runs' = [runs EXCEPT ![r].dl[i] = after]
                /\ temp' = [temp EXCEPT ![Path(d)] =
                      IF after.pc = "ret_mismatch" THEN Absent
                      ELSE IF more /\ @ # Absent THEN n
                      ELSE @]
        /\ UNCHANGED <<download_queue, download_cancelled, final, is_local,
                       ui, fd, unit>>

\* ----- the download engine -----
ResolveResults == {"fail", "raise", "empty", "list"}
StreamResults == {"stream", "request", "nolength", "short"}

Next ==
    \/ \E a \in Assets : QueueDownload(a)
    \/ QueueDownloadFuture
    \/ \E a \in Assets : UserCancel(a)
    \/ \E r \in RunIds : RunStart(r)
    \/ \E r \in RunIds : \E res \in ResolveResults : RunResolved(r, res)
    \/ \E r \in RunIds : RunPoll(r)
    \/ \E r \in RunIds : \E timeout \in BOOLEAN : RunCancelWait(r, timeout)
    \/ \E r \in RunIds : RunFinish(r)
    \/ \E r \in RunIds : \E i \in DOMAIN runs[r].dl :
          \E out \in StreamResults : FileStart(r, i, out)
    \/ \E r \in RunIds : \E i \in DOMAIN runs[r].dl : FileOngoing(r, i)
    \/ \E r \in RunIds : \E i \in DOMAIN runs[r].dl :
          \E oserr \in BOOLEAN : FileChunk(r, i, oserr)

Spec == Init /\ [][Next]_vars

\* ----- FileDownload under arbitrary call orders -----
\* The status methods of FileDownload called in any order by a download
\* thread (set_status_ongoing / _done / _error) and a cancelling thread
\* (set_status_cancelled) on NumFD descriptors.  "lock: Lock = Lock()" is a
\* class-level default, so all descriptors share the one lock; every method
\* body runs inside "with self.lock".
FDThreads == {"download", "cancel"}
FDOps(t) ==
    IF t = "cancel" THEN {"set_status_cancelled"}
    ELSE {"set_status_ongoing", "set_status_done", "set_status_error"}

FDIdle == [pc |-> "idle", op |-> "-", i |-> 0, res |-> "-"]

InitFD ==
    /\ download_queue = [a \in Assets |-> NoEntry]
    /\ download_cancelled = {}
    /\ runs = <<>>
    /\ temp = [p \in Assets \X Files |-> Absent]
    /\ final = [p \in Assets \X Files |-> Absent]
    /\ is_local = [a \in Assets |-> "None"]
    /\ ui = [pc |-> "idle", asset |-> 0, run |-> 0, raised |-> FALSE]
    /\ env = [events |-> 0]
    /\ fd = [d |-> [i \in 1..NumFD |-> [status |-> "INITIALIZED"]],
             lock |-> "free",
             th |-> [t \in FDThreads |-> FDIdle]]
    /\ unit = <<>>

FDUnchanged ==
    UNCHANGED <<download_queue, download_cancelled, runs, temp, final,
                is_local, ui, env, unit>>

\* schedule_downloads, line 678: download.status = WAITING (no lock; the
\* descriptor is not yet shared with a download thread).
FDSchedule(i) ==
    /\ fd.d[i].status = "INITIALIZED"
    /\ fd' = [fd EXCEPT !.d[i].status = "WAITING"]
    /\ FDUnchanged

\* A thread enters one of the methods and reaches "with self.lock".
FDCall(t, op, i) ==
    /\ fd.th[t].pc = "idle"
    /\ fd.d[i].status # "INITIALIZED"
    /\ fd' = [fd EXCEPT !.th[t] = [pc |-> "acquire", op |-> op, i |-> i,
                                   res |-> "-"]]
    /\ FDUnchanged

\* Lock.acquire()
FDAcquire(t) ==
    /\ fd.th[t].pc = "acquire"
    /\ fd.lock = "free"
    /\ fd' = [fd EXCEPT !.lock = t, !.th[t].pc = "locked"]
    /\ FDUnchanged

\* The method body, then Lock.release() and the return.
FDBody(t) ==
    LET op == fd.th[t].op
        i == fd.th[t].i
        d == fd.d[i]
        so == set_status_ongoing(d)
    IN  /\ fd.th[t].pc = "locked"
        /\ fd' = [fd EXCEPT
              !.lock = "free",
              !.th[t] = [pc |-> "idle", op |-> op, i |-> i,
                         res |-> IF op # "set_status_ongoing" THEN "None"
                                 ELSE IF so.res THEN "True" ELSE "False"],
              !.d[i] = CASE op = "set_status_cancelled" -> set_status_cancelled(d)
                         [] op = "set_status_ongoing" -> so.d
                         [] op = "set_status_error" -> set_status_error(d)
                         [] OTHER -> set_status_done(d)]
        /\ FDUnchanged

NextFD ==
    \/ \E i \in 1..NumFD : FDSchedule(i)
    \/ \E t \in FDThreads : \E op \in FDOps(t) : \E i \in 1..NumFD : FDCall(t, op, i)
    \/ \E t \in FDThreads : FDAcquire(t)
    \/ \E t \in FDThreads : FDBody(t)

SpecFD == InitFD /\ [][NextFD]_vars

\* ----- the two levels of thread pools -----
\* queue_download submits download_asset to the one ASSET_DL pool of the
\* ThreadManager (max_workers fixed by the first use, line 402); every
\* download_asset run creates its own ThreadPoolExecutor (line 437) and
\* schedule_downloads submits one task per file to it.  The file tasks of a
\* run are interchangeable here, so a run holds their numbers: waiting
\* (submitted, not started), running, done.
PoolJob(a) == [asset |-> a, st |-> "pending", waiting |-> 0, running |-> 0,
               done |-> 0]

InitPool ==
    /\ download_queue = [a \in Assets |-> NoEntry]
    /\ download_cancelled = {}
    /\ runs = <<>>
    /\ temp = [p \in Assets \X Files |-> Absent]
    /\ final = [p \in Assets \X Files |-> Absent]
    /\ is_local = [a \in Assets |-> "None"]
    /\ ui = [pc |-> "idle", asset |-> 0, run |-> 0, raised |-> FALSE]
    /\ env = [events |-> 0]
    /\ fd = <<>>
    /\ unit = [jobs |-> <<>>, left |-> MaxPoolRuns]

PoolUnchanged ==
    UNCHANGED <<download_queue, download_cancelled, runs, temp, final,
                is_local, ui, env, fd>>

\* queue_download: thread_pool.submit(download_asset) (thread_manager.py 136).
PoolQueue(a) ==
    /\ unit.left > 0
    /\ unit' = [jobs |-> Append(unit.jobs, PoolJob(a)), left |-> unit.left - 1]
    /\ PoolUnchanged

\* A worker of the ASSET_DL pool takes the oldest pending run; the run
\* creates its executor and submits its files.
PoolRunStart(j) ==
    /\ unit.jobs[j].st = "pending"
    /\ \A k \in 1..(j - 1) : unit.jobs[k].st # "pending"
    /\ Cardinality({k \in DOMAIN unit.jobs : unit.jobs[k].st = "running"})
          < MAX_PARALLEL_ASSET_DOWNLOADS
    /\ unit' = [unit EXCEPT !.jobs[j].st = "running",
                            !.jobs[j].waiting = NumPoolFiles]
    /\ PoolUnchanged

\* A worker of the run's executor takes a waiting file task.
PoolFileStart(j) ==
    /\ unit.jobs[j].waiting > 0
    /\ unit.jobs[j].running < MAX_PARALLEL_DOWNLOADS_PER_ASSET
    /\ unit' = [unit EXCEPT !.jobs[j].waiting = @ - 1,
                            !.jobs[j].running = @ + 1]
    /\ PoolUnchanged

\* download_asset_file returns.
PoolFileEnd(j) ==
    /\ unit.jobs[j].running > 0
    /\ unit' = [unit EXCEPT !.jobs[j].running = @ - 1,
                            !.jobs[j].done = @ + 1]
    /\ PoolUnchanged

\* download_asset returns after all its files are done.
PoolRunEnd(j) ==
    /\ unit.jobs[j].st = "running"
    /\ unit.jobs[j].waiting = 0
    /\ unit.jobs[j].running = 0
    /\ unit' = [unit EXCEPT !.jobs[j].st = "ended"]
    /\ PoolUnchanged

NextPool ==
    \/ \E a \in Assets : PoolQueue(a)
    \/ \E j \in DOMAIN unit.jobs : PoolRunStart(j)
    \/ \E j \in DOMAIN unit.jobs : PoolFileStart(j)
    \/ \E j \in DOMAIN unit.jobs : PoolFileEnd(j)
    \/ \E j \in DOMAIN unit.jobs : PoolRunEnd(j)

SpecPool == InitPool /\ [][NextPool]_vars

RECURSIVE PoolRunningFiles(_, _)
PoolRunningFiles(a, n) ==
    IF n = 0 THEN 0
    ELSE (IF unit.jobs[n].asset = a THEN unit.jobs[n].running ELSE 0)
         + PoolRunningFiles(a, n - 1)

\* ----- schedule_downloads on arbitrary download lists -----
\* The input is any list of up to MaxSortLen descriptors with sizes in
\* 1..MaxSortSize; the file of a descriptor is its place in the input.
\* After schedule_downloads the workers of the executor take the tasks in
\* the order of their submission; started records that order.
SortInputs ==
    UNION {[1..n -> 1..MaxSortSize] : n \in 0..MaxSortLen}

SortDescriptor(i, size) ==
    [FileDownload(1, 1) EXCEPT !.file = i, !.size_expected = size]

InitSort ==
    /\ download_queue = [a \in Assets |-> NoEntry]
    /\ download_cancelled = {}
    /\ runs = <<>>
    /\ temp = [p \in Assets \X Files |-> Absent]
    /\ final = [p \in Assets \X Files |-> Absent]
    /\ is_local = [a \in Assets |-> "None"]
    /\ ui = [pc |-> "idle", asset |-> 0, run |-> 0, raised |-> FALSE]
    /\ env = [events |-> 0]
    /\ fd = <<>>
    /\ \E sizes \in SortInputs :
          unit = [pc |-> "input",
                  input |-> [i \in DOMAIN sizes |-> SortDescriptor(i, sizes[i])],
                  dl |-> <<>>,
                  started |-> <<>>]

SortCall ==
    /\ unit.pc = "input"
    /\ unit' = [unit EXCEPT !.pc = "scheduled",
                            !.dl = schedule_downloads(unit.input)]
    /\ PoolUnchanged

SortFileStart(i) ==
    /\ unit.pc = "scheduled"
    /\ unit.dl[i].fut = "pending"
    /\ \A j \in 1..(i - 1) : unit.dl[j].fut # "pending"
    /\ Cardinality({j \in DOMAIN unit.dl : unit.dl[j].fut = "running"})
          < MAX_PARALLEL_DOWNLOADS_PER_ASSET
    /\ unit' = [unit EXCEPT !.dl[i].fut = "running",
                            !.started = Append(@, unit.dl[i].file)]
    /\ PoolUnchanged

SortFileEnd(i) ==
    /\ unit.pc = "scheduled"
    /\ unit.dl[i].fut = "running"
    /\ unit' = [unit EXCEPT !.dl[i].fut = "done"]
    /\ PoolUnchanged

NextSort ==
    \/ SortCall
    \/ \E i \in DOMAIN unit.dl : SortFileStart(i)
    \/ \E i \in DOMAIN unit.dl : SortFileEnd(i)

SpecSort == InitSort /\ [][NextSort]_vars

(***************************************************************************)
(* AssetIndex.update_asset and AssetData.update (asset_index.py 272-300,   *)
(* assets.py 1107-1137) with the update methods of the four type payloads. *)
(* A field value is a non-empty tuple, None is the empty tuple; a Python   *)
(* list is the tuple <<"list", elements>>, so that [] is not None.         *)
(* unit holds the index, the call's arguments and the call's outcome.      *)
(***************************************************************************)
MaxMergeFields == 1      \* fields of the partial AssetData that are set
MaxMapLen == 1           \* texture maps per workflow in an input

None == <<>>

AssetFields ==
    {"display_name", "categories", "url", "slug", "credits", "thumb_urls",
     "published_at", "is_local", "downloaded_at", "is_purchased",
     "purchased_at", "render_custom_schema"}

TextureFields == {"map_descs", "sizes", "variants", "lods", "watermarked_urls"}

Workflows == {"REGULAR"}

TexMapKeys == {1, 2}

\* the new value taken whether it is None or not
_cond_set_new(new, old) == new

_cond_set(new, old) == IF new # None THEN new ELSE old

\* The texture maps of one workflow, and the maps dictionary of a Texture.
TexMapLists(tag) ==
    UNION {[1..n -> [key : TexMapKeys, filename : {<<tag>>}]] : n \in 0..MaxMapLen}

MapsInputs(tag) ==
    UNION {[W -> TexMapLists(tag)] : W \in SUBSET Workflows}

Texture(values, maps) ==
    [f \in TextureFields \cup {"maps"} |->
        IF f = "maps" THEN maps ELSE values[f]]

AssetTypes == {"BRUSH", "HDRI", "MODEL", "TEXTURE"}

PayloadFields == {"brush", "hdri", "model", "texture"}

PayloadField(asset_type) ==
    CASE asset_type = "BRUSH" -> "brush"
      [] asset_type = "HDRI" -> "hdri"
      [] asset_type = "MODEL" -> "model"
      [] asset_type = "TEXTURE" -> "texture"

AssetData(asset_id, asset_type, values, type_data) ==
    [f \in AssetFields \cup {"asset_id", "asset_name", "asset_type"}
            \cup PayloadFields |->
        CASE f = "asset_id" -> <<asset_id>>
          [] f = "asset_name" -> <<"name">>
          [] f = "asset_type" -> <<asset_type>>
          [] f \in PayloadFields ->
                 IF f = PayloadField(asset_type) THEN type_data ELSE None
          [] OTHER -> values[f]]

get_type_data(self) == self[PayloadField(self.asset_type[1])]

\* Texture.update, lines 379-390: the maps of one workflow present on both
\* sides.  tex_map_dict is built once from the first n entries of cur, a
\* later entry with the same key replacing an earlier one in the dict.
RECURSIVE merge_tex_maps(_, _, _)
merge_tex_maps(cur, n, tex_maps_new) ==
    IF tex_maps_new = <<>> THEN cur
    ELSE LET tex_map_new == Head(tex_maps_new)
             hits == {i \in 1..n : cur[i].key = tex_map_new.key}
             last == CHOOSE i \in hits : \A j \in hits : j <= i
         IN  IF hits # {}
             THEN merge_tex_maps(
                      [cur EXCEPT ![last].filename = tex_map_new.filename],
                      n, Tail(tex_maps_new))
             ELSE merge_tex_maps(Append(cur, tex_map_new), n,
                                 Tail(tex_maps_new))

merge_maps(maps, maps_new) ==
    [w \in DOMAIN maps \cup DOMAIN maps_new |->
        IF w \notin DOMAIN maps_new THEN maps[w]
        ELSE IF w \notin DOMAIN maps THEN maps_new[w]
        ELSE merge_tex_maps(maps[w], Len(maps[w]), maps_new[w])]

Texture_update(self, type_data_new, purge_maps) ==
    IF type_data_new = None THEN self
    ELSE [f \in DOMAIN self |->
            IF f = "maps"
            THEN merge_maps(IF purge_maps THEN <<>> ELSE self.maps,
                            type_data_new.maps)
            ELSE _cond_set(type_data_new[f], self[f])]

Brush_update(self, type_data_new, purge_maps) ==
    IF type_data_new = None THEN self
    ELSE [alpha |-> Texture_update(self.alpha, type_data_new.alpha, purge_maps)]

Hdri_update(self, type_data_new, purge_maps) ==
    IF type_data_new = None THEN self
    ELSE [bg |-> Texture_update(self.bg, type_data_new.bg, purge_maps),
          light |-> Texture_update(self.light, type_data_new.light, purge_maps)]

Model_update(self, type_data_new, purge_maps) ==
    IF type_data_new = None THEN self
    ELSE [meshes |-> _cond_set(type_data_new.meshes, self.meshes),
          lods |-> _cond_set(type_data_new.lods, self.lods),
          sizes |-> _cond_set(type_data_new.sizes, self.sizes),
          variants |-> _cond_set(type_data_new.variants, self.variants),
          texture |-> IF self.texture = None THEN type_data_new.texture
                      ELSE Texture_update(self.texture, type_data_new.texture,
                                          purge_maps)]

type_data_update(self, type_data_new, purge_maps, asset_type) ==
    CASE asset_type = "BRUSH" -> Brush_update(self, type_data_new, purge_maps)
      [] asset_type = "HDRI" -> Hdri_update(self, type_data_new, purge_maps)
      [] asset_type = "MODEL" -> Model_update(self, type_data_new, purge_maps)
      [] asset_type = "TEXTURE" ->
             Texture_update(self, type_data_new, purge_maps)

\* AssetData.update: credits has no assignment, and published_at is
\* assigned from thumb_urls on both sides (lines 1125-1126), after
\* thumb_urls itself was merged (line 1124).
AssetData_update(self, asset_data_new, purge_maps) ==
    LET thumb_urls == _cond_set(asset_data_new.thumb_urls, self.thumb_urls)
    IN  [f \in DOMAIN self |->
            CASE f \in {"asset_id", "asset_name", "asset_type", "credits"} ->
                     self[f]
              [] f = "published_at" ->
                     _cond_set(asset_data_new.thumb_urls, thumb_urls)
              [] f = PayloadField(self.asset_type[1]) ->
                     type_data_update(get_type_data(self),
                                      get_type_data(asset_data_new),
                                      purge_maps, self.asset_type[1])
              [] f \in PayloadFields -> self[f]
              [] OTHER -> _cond_set(asset_data_new[f], self[f])]

\* AssetIndex.update_asset: outcome and the index afterwards.
update_asset_raises(all_assets, asset_id, asset_data_new) ==
    /\ asset_id \in DOMAIN all_assets
    /\ \/ <<asset_id>> # asset_data_new.asset_id
       \/ all_assets[asset_id].asset_name # asset_data_new.asset_name
       \/ all_assets[asset_id].asset_type # asset_data_new.asset_type

update_asset_any_name(all_assets, asset_id, asset_data_new, purge_maps) ==
    IF asset_id \notin DOMAIN all_assets THEN all_assets
    ELSE IF \/ <<asset_id>> # asset_data_new.asset_id
            \/ all_assets[asset_id].asset_type # asset_data_new.asset_type
         THEN all_assets
         ELSE [all_assets EXCEPT ![asset_id] =
                  AssetData_update(@, asset_data_new, purge_maps)]

update_asset(all_assets, asset_id, asset_data_new, purge_maps) ==
    IF asset_id \notin DOMAIN all_assets THEN all_assets
    ELSE IF update_asset_raises(all_assets, asset_id, asset_data_new)
         THEN all_assets
         ELSE [all_assets EXCEPT ![asset_id] =
                  AssetData_update(@, asset_data_new, purge_maps)]

\* Inputs: the stored asset has every mergeable field set or none of them;
\* the partial one sets at most MaxMergeFields of them.
FieldChoices ==
    {S \in SUBSET (AssetFields \cup TextureFields) :
        Cardinality(S) <= MaxMergeFields}

FieldValues(tag, S) ==
    [f \in AssetFields \cup TextureFields |->
        IF f \in S THEN <<tag, f>> ELSE None]

StoredAssets ==
    {AssetData(1, "TEXTURE", FieldValues("old", S),
               Texture(FieldValues("old", S), m)) :
        S \in {{}, AssetFields \cup TextureFields}, m \in MapsInputs("old")}

PartialTextures(S) ==
    {None} \cup {Texture(FieldValues("new", S), m) : m \in MapsInputs("new")}

PartialAssets ==
    UNION {{AssetData(id, "TEXTURE", FieldValues("new", S), t) :
               id \in 1..2, t \in PartialTextures(S)} : S \in FieldChoices}

InitMerge ==
    /\ download_queue = [a \in Assets |-> NoEntry]
    /\ download_cancelled = {}
    /\ runs = <<>>
    /\ temp = [p \in Assets \X Files |-> Absent]
    /\ final = [p \in Assets \X Files |-> Absent]
    /\ is_local = [a \in Assets |-> "None"]
    /\ ui = [pc |-> "idle", asset |-> 0, run |-> 0, raised |-> FALSE]
    /\ env = [events |-> 0]
    /\ fd = <<>>
    /\ \E stored \in StoredAssets, partial \in PartialAssets,
          known \in BOOLEAN, purge_maps \in BOOLEAN :
          unit = [pc |-> "input",
                  all_assets |-> IF known THEN (1 :> stored) ELSE <<>>,
                  before |-> stored,
                  asset_data_new |-> partial,
                  purge_maps |-> purge_maps]

MergeCall ==
    /\ unit.pc = "input"
    /\ unit' = [unit EXCEPT
          !.pc = IF update_asset_raises(unit.all_assets, 1, unit.asset_data_new)
                 THEN "raised" ELSE "returned",
          !.all_assets = update_asset(@, 1, unit.asset_data_new,
                                      unit.purge_maps)]
    /\ PoolUnchanged

NextMerge == MergeCall

SpecMerge == InitMerge /\ [][NextMerge]_vars

(***************************************************************************)
(* AssetIndex.update_from_directory (asset_index.py 311-652).  A file name *)
(* is given by the parts of its base name between underscores and its      *)
(* suffix; a directory is a set of file names, walked in sorted order.     *)
(***************************************************************************)
MaxDirFiles == 2         \* files in the directory

LODS == <<"SOURCE", "LOD0", "LOD1", "LOD2", "LOD3", "LOD4">>

PREVIEWS ==
    {"atlas", "sphere", "cylinder", "fabric", "preview1", "preview2",
     "preview3", "flat", "cube"}

SIZES ==
    <<"1K", "2K", "3K", "4K", "5K", "6K", "7K", "8K", "9K", "10K", "11K",
      "12K", "13K", "14K", "15K", "16K", "17K", "18K", "HIRES", "WM">>

VARIANTS ==
    <<"VAR1", "VAR2", "VAR3", "VAR4", "VAR5", "VAR6", "VAR7", "VAR8", "VAR9">>

WORKFLOWS == {"REGULAR", "METALNESS", "SPECULAR"}

MAPS_TYPE_NAMES ==
    {"DEFAULT", "UNKNOWN", "ALPHA", "ALPHAMASKED", "AO", "BUMP", "BUMP16",
     "COL", "DIFF", "DISP", "DISP16", "EMISSIVE", "ENV", "JPG", "FUZZ",
     "GLOSS", "IDMAP", "LIGHT", "HDR", "MASK", "METALNESS", "NRM", "NRM16",
     "OVERLAY", "REFL", "ROUGHNESS", "SSS", "TRANSLUCENCY", "TRANSMISSION"}

\* MapType[name]: UNKNOWN, JPG and HDR are aliases of DEFAULT, ENV and LIGHT.
MapType(name) ==
    CASE name = "UNKNOWN" -> "DEFAULT"
      [] name = "JPG" -> "ENV"
      [] name = "HDR" -> "LIGHT"
      [] OTHER -> name

\* The file names of the directories, in the order of sorted().
DirFiles ==
    <<[filename |-> "Asset.blend", parts |-> <<"Asset">>, suffix |-> ".blend"],
      [filename |-> "Asset.txt", parts |-> <<"Asset">>, suffix |-> ".txt"],
      [filename |-> "Asset_ALPHA_1K.jpg",
       parts |-> <<"Asset", "ALPHA", "1K">>, suffix |-> ".jpg"],
      [filename |-> "Asset_ALPHA_1K.png",
       parts |-> <<"Asset", "ALPHA", "1K">>, suffix |-> ".png"],
      [filename |-> "Asset_COL_METALNESS_1K.png",
       parts |-> <<"Asset", "COL", "METALNESS", "1K">>, suffix |-> ".png"],
      [filename |-> "Asset_ENV.jpg",
       parts |-> <<"Asset", "ENV">>, suffix |-> ".jpg"],
      [filename |-> "Asset_LIGHT.exr",
       parts |-> <<"Asset", "LIGHT">>, suffix |-> ".exr"],
      [filename |-> "Asset_LOD1.fbx",
       parts |-> <<"Asset", "LOD1">>, suffix |-> ".fbx"],
      [filename |-> "Asset_sphere.png",
       parts |-> <<"Asset", "sphere">>, suffix |-> ".png"],
      [filename |-> "Backdrop.jpg", parts |-> <<"Backdrop">>, suffix |-> ".jpg"]>>

Directories ==
    {D \in SUBSET DOMAIN DirFiles : Cardinality(D) <= MaxDirFiles}

\* The first part of a file name that is in a set, and the first entry of a
\* list that is among the parts; None when there is none.
FirstPartIn(filename_parts, S) ==
    LET hits == {i \in DOMAIN filename_parts : filename_parts[i] \in S}
    IN  IF hits = {} THEN None ELSE <<filename_parts[Min(hits)]>>

FirstOfList(list, filename_parts) ==
    LET hits == {i \in DOMAIN list :
                    \E j \in DOMAIN filename_parts : filename_parts[j] = list[i]}
    IN  IF hits = {} THEN None ELSE <<list[Min(hits)]>>

_map_type_from_filename_parts(filename_parts) ==
    LET found == FirstPartIn(filename_parts, MAPS_TYPE_NAMES)
        map_type_name == IF found = None THEN "DIFF" ELSE found[1]
    IN  [map_type |-> <<MapType(map_type_name)>>,
         workflow |-> FirstPartIn(filename_parts, WORKFLOWS)]

_lod_from_filename_parts(filename_parts) == FirstOfList(LODS, filename_parts)

_size_from_filename_parts(filename_parts) == FirstOfList(SIZES, filename_parts)

_variant_from_filename_parts(filename_parts) ==
    FirstOfList(VARIANTS, filename_parts)

\* base_filename_low.endswith(preview_name), preview_name being "_" + a name
is_preview(file) ==
    /\ Len(file.parts) >= 2
    /\ file.parts[Len(file.parts)] \in PREVIEWS

\* _analyze_files, lines 419-477: one file added to the lists.
analyze_file(found, file, workflow_fallback) ==
    IF is_preview(file)
    THEN [found EXCEPT !.previews = Append(@, file.filename)]
    ELSE LET is_image == file.suffix \in {".jpg", ".jpeg", ".png", ".tif",
                                          ".exr", ".psd"}
             mt == _map_type_from_filename_parts(file.parts)
             map_type == IF is_image THEN mt.map_type ELSE None
             workflow_file ==
                 IF is_image /\ mt.workflow # None THEN mt.workflow[1]
                 ELSE workflow_fallback
             lod == _lod_from_filename_parts(file.parts)
             size == _size_from_filename_parts(file.parts)
             variant == _variant_from_filename_parts(file.parts)
             lists == [found EXCEPT
                          !.lods = IF lod # None THEN @ \cup {lod[1]} ELSE @,
                          !.sizes = IF size # None THEN @ \cup {size[1]} ELSE @,
                          !.variants = IF variant # None THEN @ \cup {variant[1]}
                                       ELSE @]
             tex_map == [key |-> <<map_type, size, variant, lod>>,
                         filename |-> <<file.filename>>]
             mesh == [model_type |-> file.suffix, lod |-> lod,
                      filename |-> file.filename]
         IN  IF map_type # None
             THEN [lists EXCEPT !.texture_maps =
                      IF workflow_file \in DOMAIN @
                      THEN [@ EXCEPT ![workflow_file] = Append(@, tex_map)]
                      ELSE @ @@ (workflow_file :> <<tex_map>>)]
             ELSE IF file.suffix \in {".fbx", ".blend", ".max"}
             THEN [lists EXCEPT !.meshes = Append(@, mesh)]
             ELSE lists

\* _analyze_files over the files from index i on; lods, sizes and variants
\* are kept as sets, which is what lines 615-617 make of them.
RECURSIVE analyze_from(_, _, _, _)
analyze_from(found, dir_asset, i, workflow_fallback) ==
    IF i > Len(DirFiles) THEN found
    ELSE analyze_from(IF i \in dir_asset
                      THEN analyze_file(found, DirFiles[i], workflow_fallback)
                      ELSE found,
                      dir_asset, i + 1, workflow_fallback)

_analyze_files(dir_asset, workflow_fallback) ==
    analyze_from([lods |-> {}, sizes |-> {}, variants |-> {},
                  previews |-> <<>>, texture_maps |-> <<>>, meshes |-> <<>>],
                 dir_asset, 1, workflow_fallback)

\* Texture(): every field None, no maps.
NewTexture(maps) == Texture([f \in TextureFields |-> None], maps)

SelectMaps(tex_maps, types) ==
    SelectSeq(tex_maps, LAMBDA tex_map : tex_map.key[1][1] \in types)

_prepare_brush_update_asset_data(workflow, texture_maps) ==
    IF workflow \notin DOMAIN texture_maps
    THEN [files_found |-> FALSE, type_data |-> None]
    ELSE LET maps == SelectMaps(texture_maps[workflow], {"ALPHA"})
         IN  [files_found |-> maps # <<>>,
              type_data |-> [alpha |-> NewTexture(workflow :> maps)]]

_prepare_hdri_update_asset_data(workflow, texture_maps) ==
    IF workflow \notin DOMAIN texture_maps
    THEN [files_found |-> FALSE, type_data |-> None]
    ELSE LET bg == SelectMaps(texture_maps[workflow], {"ENV"})
             light == SelectMaps(texture_maps[workflow], {"LIGHT"})
         IN  [files_found |-> bg # <<>> \/ light # <<>>,
              type_data |-> [bg |-> NewTexture(workflow :> bg),
                             light |-> NewTexture(workflow :> light)]]

\* Lines 539-550: the descriptions of one workflow, without repetitions.
RECURSIVE map_desc_list(_, _, _, _)
map_desc_list(descs, tex_map_list, sizes, variants) ==
    IF tex_map_list = <<>> THEN descs
    ELSE LET tex_map_desc == [map_type_code |-> Head(tex_map_list).key[1][1],
                              sizes |-> sizes, variants |-> variants]
         IN  map_desc_list(
                 IF \E i \in DOMAIN descs : descs[i] = tex_map_desc
                 THEN descs ELSE Append(descs, tex_map_desc),
                 Tail(tex_map_list), sizes, variants)

_prepare_model_update_asset_data(meshes, texture_maps, sizes, variants, lods) ==
    LET map_descs == [w \in DOMAIN texture_maps |->
                         map_desc_list(<<>>, texture_maps[w], sizes, variants)]
        tex == [NewTexture(texture_maps) EXCEPT
                   !["map_descs"] = <<"dict", map_descs>>,
                   !["sizes"] = <<"list", sizes>>,
                   !["variants"] = <<"list", variants>>,
                   !["lods"] = <<"list", lods>>]
    IN  [files_found |-> DOMAIN texture_maps # {},
         type_data |-> [meshes |-> <<"list", meshes>>,
                        texture |-> tex,
                        lods |-> <<"list", lods>>,
                        sizes |-> None,
                        variants |-> <<"list", variants>>]]

_prepare_tex_update_asset_data(texture_maps) ==
    [files_found |-> DOMAIN texture_maps # {},
     type_data |-> NewTexture(texture_maps)]

prepare_update_asset_data(asset_type, found, workflow_fallback) ==
    CASE asset_type = "BRUSH" ->
             _prepare_brush_update_asset_data(workflow_fallback,
                                              found.texture_maps)
      [] asset_type = "HDRI" ->
             _prepare_hdri_update_asset_data(workflow_fallback,
                                             found.texture_maps)
      [] asset_type = "MODEL" ->
             _prepare_model_update_asset_data(found.meshes, found.texture_maps,
                                              found.sizes, found.variants,
                                              found.lods)
      [] asset_type = "TEXTURE" ->
             _prepare_tex_update_asset_data(found.texture_maps)

\* update_from_directory for an asset of the index: the value returned and
\* the index afterwards.  The time stamp is <<"now">>.
update_from_directory(all_assets, asset_id, dir_asset, workflow_fallback) ==
    LET found == _analyze_files(dir_asset, workflow_fallback)
        asset_type == all_assets[asset_id].asset_type[1]
        prepared == prepare_update_asset_data(asset_type, found,
                                              workflow_fallback)
        asset_data_update ==
            [AssetData(asset_id, asset_type,
                       [f \in AssetFields |-> None], prepared.type_data)
                EXCEPT !["asset_name"] = all_assets[asset_id].asset_name]
        updated == update_asset(all_assets, asset_id, asset_data_update, FALSE)
    IN  [files_found |-> prepared.files_found,
         all_assets |->
             IF prepared.files_found
             THEN [updated EXCEPT ![asset_id]["downloaded_at"] = <<"now">>,
                                  ![asset_id]["is_local"] = <<TRUE>>]
             ELSE updated]

\* The payload of a stored asset of each type.
StoredTypeData(asset_type, values, maps) ==
    CASE asset_type = "BRUSH" -> [alpha |-> Texture(values, maps)]
      [] asset_type = "HDRI" ->
             [bg |-> Texture(values, maps), light |-> Texture(values, maps)]
      [] asset_type = "MODEL" ->
             [meshes |-> values["sizes"], lods |-> values["lods"],
              sizes |-> values["sizes"], variants |-> values["variants"],
              texture |-> Texture(values, maps)]
      [] asset_type = "TEXTURE" -> Texture(values, maps)

StoredMaps ==
    {<<>>,
     "REGULAR" :> <<[key |-> <<<<"ALPHA">>, <<"1K">>, None, None>>,
                     filename |-> <<"old.png">>]>>}

StoredDirAssets ==
    {AssetData(1, t, FieldValues("old", S),
               StoredTypeData(t, FieldValues("old", S), m)) :
        t \in AssetTypes, S \in {{}, AssetFields \cup TextureFields},
        m \in StoredMaps}

InitDir ==
    /\ download_queue = [a \in Assets |-> NoEntry]
    /\ download_cancelled = {}
    /\ runs = <<>>
    /\ temp = [p \in Assets \X Files |-> Absent]
    /\ final = [p \in Assets \X Files |-> Absent]
    /\ is_local = [a \in Assets |-> "None"]
    /\ ui = [pc |-> "idle", asset |-> 0, run |-> 0, raised |-> FALSE]
    /\ env = [events |-> 0]
    /\ fd = <<>>
    /\ \E stored \in StoredDirAssets, dir_asset \in Directories,
          known \in BOOLEAN :
          unit = [pc |-> "input",
                  all_assets |-> IF known THEN (1 :> stored) ELSE <<>>,
                  before |-> stored,
                  dir_asset |-> dir_asset,
                  files_found |-> FALSE]

\* The asset is not in the index: KeyError, lines 597-598.
DirCallRaises ==
    /\ unit.pc = "input"
    /\ 1 \notin DOMAIN unit.all_assets
    /\ unit' = [unit EXCEPT !.pc = "raised"]
    /\ PoolUnchanged

DirCall ==
    /\ unit.pc = "input"
    /\ 1 \in DOMAIN unit.all_assets
    /\ LET res == update_from_directory(unit.all_assets, 1, unit.dir_asset,
                                        "REGULAR")
       IN  unit' = [unit EXCEPT !.pc = "returned",
                                !.all_assets = res.all_assets,
                                !.files_found = res.files_found]
    /\ PoolUnchanged

NextDir ==
    \/ DirCallRaises
    \/ DirCall

SpecDir == InitDir /\ [][NextDir]_vars

(***************************************************************************)
(* AssetIndex as a whole (asset_index.py 35-52, 215-309, 714-878,          *)
(* 1441-1451): the index of one process, its operations called one after   *)
(* the other.  unit holds all_assets, cached_queries, the identity each    *)
(* stored asset had when it was inserted, and the last call's outcome.     *)
(* A query key is the list of its parts between slashes.                   *)
(***************************************************************************)
MaxIndexOps == 3         \* calls on the index in one behaviour

IndexIds == {1, 2}

CATEGORY_NAME_TO_ASSET_TYPE ==
    [n \in {"All Assets", "Brushes", "HDRIs", "Models", "Substances",
            "Textures"} |->
        CASE n = "All Assets" -> None
          [] n = "Brushes" -> <<"BRUSH">>
          [] n = "HDRIs" -> <<"HDRI">>
          [] n = "Models" -> <<"MODEL">>
          [] n = "Substances" -> <<"SUBSTANCE">>
          [] n = "Textures" -> <<"TEXTURE">>]

API_TYPE_TO_ASSET_TYPE ==
    [n \in {"Brushes", "HDRS", "Models", "Substances", "Textures"} |->
        CASE n = "Brushes" -> "BRUSH"
          [] n = "HDRS" -> "HDRI"
          [] n = "Models" -> "MODEL"
          [] n = "Substances" -> "SUBSTANCE"
          [] n = "Textures" -> "TEXTURE"]

\* str.lower() on the strings of the inputs.
Lower(s) ==
    CASE s = "Brick" -> "brick"
      [] s = "Bricks01" -> "bricks01"
      [] s = "Wood02" -> "wood02"
      [] OTHER -> s

\* search in asset_name.lower(), on the strings of the inputs.
Contains(name_low, search) ==
    \/ name_low = search
    \/ name_low = "bricks01" /\ search = "brick"

\* _query_key_to_tuple: ValueError without a slash, KeyError for a type
\* name that is not in CATEGORY_NAME_TO_ASSET_TYPE.
query_key_raises(key_query) ==
    \/ Len(key_query) < 2
    \/ key_query[2] \notin DOMAIN CATEGORY_NAME_TO_ASSET_TYPE

_query_key_to_tuple(key_query, chunk, chunk_size) ==
    <<<<key_query[1]>>,
      CATEGORY_NAME_TO_ASSET_TYPE[key_query[2]],
      IF Len(key_query) > 2 THEN <<key_query[3]>> ELSE None,
      IF Len(key_query) > 3 THEN <<Lower(key_query[4])>> ELSE None,
      <<chunk>>, <<chunk_size>>>>

\* dict[key] = value
SetItem(dict, key, value) ==
    [k \in DOMAIN dict \cup {key} |-> IF k = key THEN value ELSE dict[k]]

\* _construct_asset_base and construct_asset for an asset of the response;
\* Substances raise NotImplementedError.
construct_asset_raises(asset_dict) ==
    API_TYPE_TO_ASSET_TYPE[asset_dict.type] = "SUBSTANCE"

construct_asset(asset_dict, purchased) ==
    LET asset_type == API_TYPE_TO_ASSET_TYPE[asset_dict.type]
        api == FieldValues("api", (AssetFields \cup TextureFields)
                   \ {"is_local", "downloaded_at", "purchased_at",
                      "is_purchased", "lods"})
        values == [api EXCEPT !["is_purchased"] = purchased,
                              !["categories"] = <<"list", asset_dict.categories>>]
        tex == Texture(values, <<>>)
        type_data ==
            CASE asset_type = "BRUSH" -> [alpha |-> tex]
              [] asset_type = "HDRI" -> [bg |-> tex, light |-> tex]
              [] asset_type = "MODEL" ->
                     [meshes |-> None, lods |-> None, sizes |-> values["sizes"],
                      variants |-> None, texture |-> None]
              [] asset_type = "TEXTURE" -> tex
    IN  [AssetData(asset_dict.id, asset_type, values, type_data)
            EXCEPT !["asset_name"] = <<asset_dict.asset_name>>]

\* load_asset: first insertion or update_asset (which may raise).
load_asset_raises(all_assets, asset_data) ==
    update_asset_raises(all_assets, asset_data.asset_id[1], asset_data)

load_asset(all_assets, asset_data) ==
    IF asset_data.asset_id[1] \notin DOMAIN all_assets
    THEN SetItem(all_assets, asset_data.asset_id[1], asset_data)
    ELSE update_asset(all_assets, asset_data.asset_id[1], asset_data, FALSE)

\* populate_assets, lines 790-796: the assets of the response one after the
\* other, until one raises.
RECURSIVE load_asset_dicts(_, _, _, _)
load_asset_dicts(all_assets, asset_dict_list, purchased, tmp_cached_query) ==
    IF asset_dict_list = <<>>
    THEN [all_assets |-> all_assets, ids |-> tmp_cached_query, raised |-> FALSE]
    ELSE LET asset_dict == Head(asset_dict_list)
             asset_data == construct_asset(asset_dict, purchased)
         IN  IF construct_asset_raises(asset_dict)
             THEN load_asset_dicts(all_assets, Tail(asset_dict_list),
                                   purchased, tmp_cached_query)
             ELSE IF load_asset_raises(all_assets, asset_data)
             THEN [all_assets |-> all_assets, ids |-> tmp_cached_query,
                   raised |-> TRUE]
             ELSE load_asset_dicts(load_asset(all_assets, asset_data),
                                   Tail(asset_dict_list), purchased,
                                   Append(tmp_cached_query, asset_dict.id))

\* populate_assets: the index afterwards and whether the call raised.
populate_assets(index, resp, key_query, append_query) ==
    IF ~resp.ok THEN [index EXCEPT !.raised = FALSE]
    ELSE IF query_key_raises(key_query) THEN [index EXCEPT !.raised = TRUE]
    ELSE LET query_tuple == _query_key_to_tuple(key_query, resp.current_page,
                                                resp.per_page)
             cleared ==
                 IF ~append_query \/ query_tuple \notin DOMAIN index.cached_queries
                 THEN SetItem(index.cached_queries, query_tuple, <<>>)
                 ELSE index.cached_queries
             purchased == IF query_tuple[1] = <<"my_assets">> THEN <<TRUE>>
                          ELSE None
             loaded == load_asset_dicts(index.all_assets, resp.data, purchased,
                                        <<>>)
         IN  [all_assets |-> loaded.all_assets,
              cached_queries |->
                  IF loaded.raised THEN cleared
                  ELSE SetItem(cleared, query_tuple,
                               cleared[query_tuple] \o loaded.ids),
              raised |-> loaded.raised]

mark_purchased(all_assets, asset_id) ==
    IF asset_id \notin DOMAIN all_assets THEN all_assets
    ELSE [all_assets EXCEPT ![asset_id]["is_purchased"] = <<TRUE>>,
                            ![asset_id]["purchased_at"] = <<"now">>]

\* get_asset_id_list(asset_type), in the order of the ids.
RECURSIVE get_asset_id_list(_, _, _)
get_asset_id_list(all_assets, asset_type, from) ==
    IF \A i \in DOMAIN all_assets : i < from THEN <<>>
    ELSE LET i == Min({j \in DOMAIN all_assets : j >= from})
         IN  (IF asset_type = None \/ all_assets[i].asset_type = asset_type
              THEN <<i>> ELSE <<>>)
             \o get_asset_id_list(all_assets, asset_type, i + 1)

filter_asset_ids_by_category(all_assets, asset_id_list, category) ==
    IF category = None THEN asset_id_list
    ELSE SelectSeq(asset_id_list,
                   LAMBDA i : \E k \in DOMAIN all_assets[i].categories[2] :
                                 all_assets[i].categories[2][k] = category[1])

filter_asset_ids_by_search(all_assets, asset_id_list, search) ==
    IF search = None THEN asset_id_list
    ELSE SelectSeq(asset_id_list,
                   LAMBDA i : Contains(Lower(all_assets[i].asset_name[1]),
                                       search[1]))

\* query: NameError in filter_asset_ids_by_credits (line 820) when the
\* search of an uncached key is "free" and fail_on_miss is False.
query_raises(index, key_query, chunk, chunk_size, fail_on_miss) ==
    \/ query_key_raises(key_query)
    \/ /\ ~fail_on_miss
       /\ _query_key_to_tuple(key_query, chunk, chunk_size)
              \notin DOMAIN index.cached_queries
       /\ _query_key_to_tuple(key_query, chunk, chunk_size)[4] = <<"free">>

query_empty_on_miss(index, key_query, chunk, chunk_size, fail_on_miss) ==
    LET query_tuple == _query_key_to_tuple(key_query, chunk, chunk_size)
    IN  IF query_tuple \in DOMAIN index.cached_queries
        THEN <<"list", index.cached_queries[query_tuple]>>
        ELSE <<"list", <<>>>>

query(index, key_query, chunk, chunk_size, fail_on_miss) ==
    LET query_tuple == _query_key_to_tuple(key_query, chunk, chunk_size)
    IN  IF query_tuple \in DOMAIN index.cached_queries
        THEN <<"list", index.cached_queries[query_tuple]>>
        ELSE IF fail_on_miss THEN None
        ELSE <<"list",
               filter_asset_ids_by_search(index.all_assets,
                   filter_asset_ids_by_category(index.all_assets,
                       get_asset_id_list(index.all_assets, query_tuple[2], 1),
                       query_tuple[3]),
                   query_tuple[4])>>

store_query(cached_queries, asset_ids, key_query, chunk, chunk_size) ==
    SetItem(cached_queries,
            _query_key_to_tuple(key_query, chunk, chunk_size), asset_ids)

\* The assets of the responses and the keys of the queries.
AssetDicts ==
    {[id |-> 1, type |-> "Textures", asset_name |-> "Bricks01",
      categories |-> <<"Wood">>],
     [id |-> 1, type |-> "Textures", asset_name |-> "Wood02",
      categories |-> <<"Wood">>],
     [id |-> 1, type |-> "Models", asset_name |-> "Bricks01",
      categories |-> <<>>],
     [id |-> 2, type |-> "Models", asset_name |-> "Wood02",
      categories |-> <<"Wood">>],
     [id |-> 2, type |-> "Substances", asset_name |-> "Wood02",
      categories |-> <<>>]}

AssetDictLists ==
    {<<>>} \cup {<<d>> : d \in AssetDicts}
           \cup {<<d, e>> : d \in {x \in AssetDicts : x.id = 1 /\ x.asset_name = "Bricks01"
                                                    /\ x.type = "Textures"},
                            e \in {x \in AssetDicts : x.id = 2 /\ x.type = "Models"}}

QueryKeys ==
    {<<"poliigon", "All Assets">>, <<"my_assets", "All Assets">>,
     <<"poliigon", "Textures", "Wood", "Brick">>,
     <<"poliigon", "All Assets", "Wood", "free">>,
     <<"poliigon">>, <<"poliigon", "Materials">>}

Responses ==
    {[ok |-> FALSE, data |-> <<>>, current_page |-> 1, per_page |-> 2]}
    \cup {[ok |-> TRUE, data |-> l, current_page |-> 1, per_page |-> 2] :
             l \in AssetDictLists}

PopulateKeys ==
    {<<"poliigon", "All Assets">>, <<"my_assets", "All Assets">>,
     <<"poliigon", "Textures", "Wood", "Brick">>, <<"poliigon">>}

StoreKeys ==
    {<<"poliigon", "All Assets">>, <<"my_assets", "All Assets">>,
     <<"poliigon", "Materials">>}

IndexDirs == {{4}, {8}}

Identity(asset_data) ==
    <<asset_data.asset_id, asset_data.asset_type, asset_data.asset_name>>

InitIndex ==
    /\ download_queue = [a \in Assets |-> NoEntry]
    /\ download_cancelled = {}
    /\ runs = <<>>
    /\ temp = [p \in Assets \X Files |-> Absent]
    /\ final = [p \in Assets \X Files |-> Absent]
    /\ is_local = [a \in Assets |-> "None"]
    /\ ui = [pc |-> "idle", asset |-> 0, run |-> 0, raised |-> FALSE]
    /\ env = [events |-> 0]
    /\ fd = <<>>
    /\ unit = [all_assets |-> <<>>, cached_queries |-> <<>>, first |-> <<>>,
               op |-> [name |-> "init", raised |-> FALSE, ret |-> None],
               left |-> MaxIndexOps]

\* One call on the index: the index afterwards, the call and its outcome.
IndexStep(all_assets, cached_queries, name, raised, ret) ==
    /\ unit.left > 0
    /\ unit' = [all_assets |-> all_assets,
                cached_queries |-> cached_queries,
                first |-> [i \in DOMAIN all_assets |->
                              IF i \in DOMAIN unit.first THEN unit.first[i]
                              ELSE Identity(all_assets[i])],
                op |-> [name |-> name, raised |-> raised, ret |-> ret],
                left |-> unit.left - 1]
    /\ PoolUnchanged

IdxPopulate(resp, key_query, append_query) ==
    LET res == populate_assets([all_assets |-> unit.all_assets,
                                cached_queries |-> unit.cached_queries,
                                raised |-> FALSE],
                               resp, key_query, append_query)
    IN  IndexStep(res.all_assets, res.cached_queries, "populate_assets",
                  res.raised, None)

IdxLoadAsset(asset_dict) ==
    /\ ~construct_asset_raises(asset_dict)
    /\ LET asset_data == construct_asset(asset_dict, None)
       IN  IndexStep(load_asset(unit.all_assets, asset_data),
                     unit.cached_queries, "load_asset",
                     load_asset_raises(unit.all_assets, asset_data), None)

IdxUpdateAsset(asset_id, asset_dict) ==
    /\ ~construct_asset_raises(asset_dict)
    /\ LET asset_data == construct_asset(asset_dict, None)
       IN  IndexStep(update_asset(unit.all_assets, asset_id, asset_data, FALSE),
                     unit.cached_queries, "update_asset",
                     update_asset_raises(unit.all_assets, asset_id, asset_data),
                     <<asset_id, Identity(asset_data)>>)

IdxMarkPurchased(asset_id) ==
    IndexStep(mark_purchased(unit.all_assets, asset_id), unit.cached_queries,
              "mark_purchased", FALSE, <<asset_id>>)

IdxUpdateFromDirectory(asset_id, dir_asset) ==
    IF asset_id \notin DOMAIN unit.all_assets
    THEN IndexStep(unit.all_assets, unit.cached_queries,
                   "update_from_directory", TRUE, None)
    ELSE LET res == update_from_directory(unit.all_assets, asset_id, dir_asset,
                                          "REGULAR")
         IN  IndexStep(res.all_assets, unit.cached_queries,
                       "update_from_directory", FALSE, <<res.files_found>>)

IdxQuery(key_query, fail_on_miss) ==
    IF query_raises(unit, key_query, 1, 2, fail_on_miss)
    THEN IndexStep(unit.all_assets, unit.cached_queries, "query", TRUE,
                   <<key_query, fail_on_miss>>)
    ELSE IndexStep(unit.all_assets, unit.cached_queries, "query", FALSE,
                   <<key_query, fail_on_miss,
                     query(unit, key_query, 1, 2, fail_on_miss)>>)

IdxStoreQuery(asset_ids, key_query) ==
    IF query_key_raises(key_query)
    THEN IndexStep(unit.all_assets, unit.cached_queries, "store_query", TRUE,
                   None)
    ELSE IndexStep(unit.all_assets,
                   store_query(unit.cached_queries, asset_ids, key_query, 1, 2),
                   "store_query", FALSE, None)

\* flush: the query cache, and with all_assets the whole index
IdxFlush(all_assets) ==
    IndexStep(IF all_assets THEN <<>> ELSE unit.all_assets, <<>>, "flush",
              FALSE, None)

NextIndex ==
    \/ \E resp \in Responses, key_query \in PopulateKeys,
          append_query \in BOOLEAN :
          IdxPopulate(resp, key_query, append_query)
    \/ \E asset_dict \in AssetDicts : IdxLoadAsset(asset_dict)
    \/ \E asset_id \in IndexIds, asset_dict \in AssetDicts :
          IdxUpdateAsset(asset_id, asset_dict)
    \/ \E asset_id \in IndexIds : IdxMarkPurchased(asset_id)
    \/ \E asset_id \in IndexIds, dir_asset \in IndexDirs :
          IdxUpdateFromDirectory(asset_id, dir_asset)
    \/ \E key_query \in QueryKeys, fail_on_miss \in BOOLEAN :
          IdxQuery(key_query, fail_on_miss)
    \/ \E asset_ids \in {<<>>, <<1>>}, key_query \in StoreKeys :
          IdxStoreQuery(asset_ids, key_query)
    \/ \E all_assets \in BOOLEAN : IdxFlush(all_assets)

SpecIndex == InitIndex /\ [][NextIndex]_vars

(***************************************************************************)
(* The index written from three threads without a lock (asset_index.py     *)
(* has none): populate_assets of a catalog fetch (755-797 with load_asset  *)
(* 714-721), mark_purchased of the purchase thread (302-309) and           *)
(* update_from_directory of the download thread (597-651), all for asset   *)
(* 1.  A step is one read or one write of the index or of an AssetData     *)
(* object; unit.objs are the AssetData objects, unit.all_assets the        *)
(* object the index holds for the asset (0: none).                         *)
(***************************************************************************)
IndexThreads == {"fetch", "purchase", "download"}

\* The fields AssetData.update assigns, in the order of lines 1116-1135,
\* that one of the threads writes.
SharedFields ==
    <<"display_name", "is_local", "downloaded_at", "is_purchased",
      "purchased_at">>

SharedObject(display_name, is_purchased) ==
    [f \in {SharedFields[k] : k \in DOMAIN SharedFields} |->
        CASE f = "display_name" -> display_name
          [] f = "is_purchased" -> is_purchased
          [] OTHER -> None]

InitThreads ==
    /\ download_queue = [a \in Assets |-> NoEntry]
    /\ download_cancelled = {}
    /\ runs = <<>>
    /\ temp = [p \in Assets \X Files |-> Absent]
    /\ final = [p \in Assets \X Files |-> Absent]
    /\ is_local = [a \in Assets |-> "None"]
    /\ ui = [pc |-> "idle", asset |-> 0, run |-> 0, raised |-> FALSE]
    /\ env = [events |-> 0]
    /\ fd = <<>>
    /\ \E stored \in BOOLEAN, files_found \in BOOLEAN, my_assets \in BOOLEAN :
          unit = [objs |-> IF stored THEN <<SharedObject(<<"old">>, None)>>
                           ELSE <<>>,
                  all_assets |-> IF stored THEN 1 ELSE 0,
                  cached_queries |-> <<>>,
                  files_found |-> files_found,
                  my_assets |-> my_assets,
                  thr |-> [t \in IndexThreads |->
                              [pc |-> "start", ref |-> 0, k |-> 0,
                               old |-> None, wrote |-> FALSE]]]

ThreadStep(t, pc, objs, all_assets) ==
    /\ unit' = [unit EXCEPT !.thr[t].pc = pc, !.objs = objs,
                            !.all_assets = all_assets]
    /\ PoolUnchanged

\* The AssetData the fetch constructs, and the one update_from_directory
\* passes to update_asset (every shared field None).
NewData(t) ==
    IF t = "fetch"
    THEN SharedObject(<<"api">>, IF unit.my_assets THEN <<TRUE>> ELSE None)
    ELSE SharedObject(None, None)

\* populate_assets, lines 784-785
FetchClear ==
    /\ unit.thr["fetch"].pc = "start"
    /\ unit' = [unit EXCEPT !.thr["fetch"].pc = "check",
                            !.cached_queries = <<>>]
    /\ PoolUnchanged

\* load_asset, line 718
FetchCheck ==
    /\ unit.thr["fetch"].pc = "check"
    /\ ThreadStep("fetch", IF unit.all_assets = 0 THEN "insert" ELSE "lookup",
                  unit.objs, unit.all_assets)

\* load_asset, line 719
FetchInsert ==
    /\ unit.thr["fetch"].pc = "insert"
    /\ unit' = [unit EXCEPT !.thr["fetch"].pc = "extend",
                            !.thr["fetch"].wrote = TRUE,
                            !.objs = Append(@, NewData("fetch")),
                            !.all_assets = Len(unit.objs) + 1]
    /\ PoolUnchanged

\* update_asset, lines 282-285, in the fetch and in the download thread
UpdateLookup(t) ==
    /\ t \in {"fetch", "download"}
    /\ unit.thr[t].pc = "lookup"
    /\ unit' = [unit EXCEPT
          !.thr[t].pc = IF unit.all_assets = 0
                        THEN (IF t = "fetch" THEN "extend" ELSE "stamp")
                        ELSE "read",
          !.thr[t].k = 1,
          !.thr[t].ref = IF t = "download" /\ unit.thr[t].ref # 0 THEN @
                         ELSE unit.all_assets,
          !.thr[t].old = IF unit.all_assets = 0 THEN None
                         ELSE <<unit.all_assets>>]
    /\ PoolUnchanged

\* AssetData.update: the arguments of one _cond_set call are read ...
MergeRead(t) ==
    /\ unit.thr[t].pc = "read"
    /\ unit' = [unit EXCEPT
          !.thr[t].pc = "write",
          !.thr[t].old = <<unit.thr[t].old[1],
                           unit.objs[unit.thr[t].old[1]]
                               [SharedFields[unit.thr[t].k]]>>]
    /\ PoolUnchanged

\* ... and its result is assigned to the field.
MergeWrite(t) ==
    /\ unit.thr[t].pc = "write"
    /\ LET obj == unit.thr[t].old[1]
           f == SharedFields[unit.thr[t].k]
           last == unit.thr[t].k = Len(SharedFields)
       IN  unit' = [unit EXCEPT
               !.objs[obj][f] = _cond_set(NewData(t)[f], unit.thr[t].old[2]),
               !.thr[t].wrote = TRUE,
               !.thr[t].k = IF last THEN 0 ELSE @ + 1,
               !.thr[t].old = IF last THEN None ELSE <<obj>>,
               !.thr[t].pc = IF ~last THEN "read"
                             ELSE IF t = "fetch" THEN "extend" ELSE "stamp"]
    /\ PoolUnchanged

\* populate_assets, line 797
FetchExtend ==
    /\ unit.thr["fetch"].pc = "extend"
    /\ unit' = [unit EXCEPT !.thr["fetch"].pc = "done",
                            !.cached_queries = Append(@, 1)]
    /\ PoolUnchanged

\* mark_purchased, lines 305-307
PurchaseCheck ==
    /\ unit.thr["purchase"].pc = "start"
    /\ ThreadStep("purchase", IF unit.all_assets = 0 THEN "done" ELSE "flag",
                  unit.objs, unit.all_assets)

PurchaseFlag ==
    /\ unit.thr["purchase"].pc = "flag"
    /\ unit.all_assets # 0
    /\ unit' = [unit EXCEPT !.thr["purchase"].pc = "time",
                            !.thr["purchase"].wrote = TRUE,
                            !.objs[unit.all_assets]["is_purchased"] = <<TRUE>>]
    /\ PoolUnchanged

\* mark_purchased, line 309
PurchaseStamp ==
    /\ unit.thr["purchase"].pc = "time"
    /\ unit.all_assets # 0
    /\ unit' = [unit EXCEPT !.thr["purchase"].pc = "done",
                            !.objs[unit.all_assets]["purchased_at"] = <<"now">>]
    /\ PoolUnchanged

\* update_from_directory, lines 597-598 (KeyError) and 619
DownloadCheck ==
    /\ unit.thr["download"].pc = "start"
    /\ unit' = [unit EXCEPT
          !.thr["download"].pc = IF unit.all_assets = 0 THEN "raised"
                                 ELSE "lookup",
          !.thr["download"].ref = unit.all_assets]
    /\ PoolUnchanged

\* update_from_directory, lines 648-652
DownloadStamp ==
    /\ unit.thr["download"].pc = "stamp"
    /\ LET obj == unit.thr["download"].ref
       IN  unit' = [unit EXCEPT
               !.thr["download"].pc = "done",
               !.thr["download"].wrote = unit.files_found,
               !.objs[obj] = IF unit.files_found
                             THEN [@ EXCEPT !["downloaded_at"] = <<"now">>,
                                            !["is_local"] = <<TRUE>>]
                             ELSE @]
    /\ PoolUnchanged

NextThreads ==
    \/ FetchClear
    \/ FetchCheck
    \/ FetchInsert
    \/ \E t \in IndexThreads : UpdateLookup(t)
    \/ \E t \in IndexThreads : MergeRead(t)
    \/ \E t \in IndexThreads : MergeWrite(t)
    \/ FetchExtend
    \/ PurchaseCheck
    \/ PurchaseFlag
    \/ PurchaseStamp
    \/ DownloadCheck
    \/ DownloadStamp

SpecThreads == InitThreads /\ [][NextThreads]_vars

(***************************************************************************)
(* save_cache and load_cache (asset_index.py 1272-1313) with the _from_dict*)
(* constructors (assets.py 231-242, 284-294, 323-349, 625-638, 730-740,    *)
(* 826-837, 857-882, 1067-1087).  The file holds the list of asset dicts   *)
(* that json writes: enum members as their numbers; strings, lists, None   *)
(* and booleans as they are.                                               *)
(***************************************************************************)
MaxCacheAssets == 2      \* assets in the index that is saved

AssetTypeValue ==
    [n \in {"UNSUPPORTED", "BRUSH", "HDRI", "MODEL", "TEXTURE", "SUBSTANCE"} |->
        CASE n = "UNSUPPORTED" -> 1 [] n = "BRUSH" -> 2 [] n = "HDRI" -> 3
          [] n = "MODEL" -> 4 [] n = "TEXTURE" -> 5 [] n = "SUBSTANCE" -> 6]

MapTypeValue ==
    [n \in {"DEFAULT", "ALPHA", "COL", "DIFF", "ENV", "LIGHT"} |->
        CASE n = "DEFAULT" -> 1 [] n = "ALPHA" -> 2 [] n = "COL" -> 7
          [] n = "DIFF" -> 8 [] n = "ENV" -> 12 [] n = "LIGHT" -> 16]

ModelTypeValue ==
    [n \in {".fbx", ".blend", ".max"} |->
        CASE n = ".fbx" -> 1 [] n = ".blend" -> 2 [] n = ".max" -> 3]

\* EnumClass(value): the member with that number
EnumMember(values, v) == CHOOSE n \in DOMAIN values : values[n] = v

\* asdict and json.dumps
DumpTexture(tex) ==
    [tex EXCEPT !["maps"] =
        [w \in DOMAIN @ |->
            [i \in DOMAIN @[w] |->
                [@[w][i] EXCEPT !.key[1] = <<MapTypeValue[@[1]]>>]]]]

DumpTypeData(asset_type, type_data) ==
    CASE asset_type = "BRUSH" -> [alpha |-> DumpTexture(type_data.alpha)]
      [] asset_type = "HDRI" -> [bg |-> DumpTexture(type_data.bg),
                                 light |-> DumpTexture(type_data.light)]
      [] asset_type = "MODEL" ->
             [type_data EXCEPT
                 !.meshes = IF @ = None THEN None
                            ELSE <<"list", [i \in DOMAIN @[2] |->
                                     [@[2][i] EXCEPT !.model_type =
                                         ModelTypeValue[@]]]>>,
                 !.texture = IF @ = None THEN None ELSE DumpTexture(@)]
      [] asset_type = "TEXTURE" -> DumpTexture(type_data)

DumpAsset(asset_data) ==
    [asset_data EXCEPT
        !["asset_type"] = <<AssetTypeValue[@[1]]>>,
        ![PayloadField(asset_data.asset_type[1])] =
            DumpTypeData(asset_data.asset_type[1], @)]

\* all_assets.values(), in the order of insertion (here: of the ids)
save_cache(all_assets) ==
    [i \in 1..Cardinality(DOMAIN all_assets) |-> DumpAsset(all_assets[i])]

\* Texture._from_dict with TextureMap._from_dict
Texture_from_dict(d) ==
    [d EXCEPT !["maps"] =
        [w \in DOMAIN @ |->
            [i \in DOMAIN @[w] |->
                [@[w][i] EXCEPT !.key[1] =
                    <<EnumMember(MapTypeValue, @[1])>>]]]]

\* Model._from_dict: Model._from_dict is called on every mesh dict, which
\* has no "meshes" key (KeyError, line 870), and a texture dict is
\* enumerated and assigned to the undefined tex_listt (NameError, line 875).
Model_from_dict_raises(d) ==
    \/ d.meshes # None /\ d.meshes[2] # <<>>
    \/ d.texture # None

Model_from_dict(d) == d

TypeData_from_dict(asset_type, d) ==
    CASE asset_type = "BRUSH" -> [alpha |-> Texture_from_dict(d.alpha)]
      [] asset_type = "HDRI" -> [bg |-> Texture_from_dict(d.bg),
                                 light |-> Texture_from_dict(d.light)]
      [] asset_type = "MODEL" -> Model_from_dict(d)
      [] asset_type = "TEXTURE" -> Texture_from_dict(d)

AssetData_from_dict_raises(d) ==
    /\ d.model # None
    /\ d.brush = None /\ d.hdri = None
    /\ Model_from_dict_raises(d.model)

AssetData_from_dict(d) ==
    LET asset_type == EnumMember(AssetTypeValue, d.asset_type[1])
    IN  [d EXCEPT !["asset_type"] = <<asset_type>>,
                  ![PayloadField(asset_type)] = TypeData_from_dict(asset_type, @)]

\* load_cache, lines 1308-1311: the index is emptied and filled asset by
\* asset, until a constructor raises.
RECURSIVE load_cache_from(_, _, _)
load_cache_from(all_assets, asset_list, i) ==
    IF i > Len(asset_list) THEN [all_assets |-> all_assets, raised |-> FALSE]
    ELSE IF AssetData_from_dict_raises(asset_list[i])
    THEN [all_assets |-> all_assets, raised |-> TRUE]
    ELSE LET asset_data == AssetData_from_dict(asset_list[i])
         IN  load_cache_from(SetItem(all_assets, asset_data.asset_id[1],
                                     asset_data),
                             asset_list, i + 1)

load_cache(asset_list) == load_cache_from(<<>>, asset_list, 1)

\* Populated indexes: every asset as the catalog gave it, or with the files
\* of a directory found by update_from_directory.
CacheDirs == {{}, {4}, {6, 7}, {5, 8}}

CacheAsset(asset_id, type, dir_asset) ==
    LET asset_data ==
            construct_asset([id |-> asset_id, type |-> type,
                             asset_name |-> "Bricks01",
                             categories |-> <<"Wood">>], None)
        all_assets == asset_id :> asset_data
    IN  IF dir_asset = {} THEN asset_data
        ELSE update_from_directory(all_assets, asset_id, dir_asset,
                                   "REGULAR").all_assets[asset_id]

CacheIndexes ==
    UNION {[1..n -> {"Brushes", "HDRS", "Models", "Textures"} \X CacheDirs] :
              n \in 1..MaxCacheAssets}

InitCache ==
    /\ download_queue = [a \in Assets |-> NoEntry]
    /\ download_cancelled = {}
    /\ runs = <<>>
    /\ temp = [p \in Assets \X Files |-> Absent]
    /\ final = [p \in Assets \X Files |-> Absent]
    /\ is_local = [a \in Assets |-> "None"]
    /\ ui = [pc |-> "idle", asset |-> 0, run |-> 0, raised |-> FALSE]
    /\ env = [events |-> 0]
    /\ fd = <<>>
    /\ \E idx \in CacheIndexes :
          unit = [pc |-> "populated",
                  all_assets |-> [i \in DOMAIN idx |->
                                     CacheAsset(i, idx[i][1], idx[i][2])],
                  saved |-> <<>>,
                  file |-> <<>>]

CacheSave ==
    /\ unit.pc = "populated"
    /\ unit' = [unit EXCEPT !.pc = "saved",
                            !.saved = unit.all_assets,
                            !.file = save_cache(unit.all_assets)]
    /\ PoolUnchanged

CacheLoad ==
    /\ unit.pc = "saved"
    /\ LET res == load_cache(unit.file)
       IN  unit' = [unit EXCEPT !.pc = IF res.raised THEN "raised" ELSE "loaded",
                                !.all_assets = res.all_assets]
    /\ PoolUnchanged

NextCache ==
    \/ CacheSave
    \/ CacheLoad

SpecCache == InitCache /\ [][NextCache]_vars

(***************************************************************************)
(* assets.py: Texture.get_size and Texture.find_closest_size on every     *)
(* requested size of SIZES and bounded lists of available sizes.  unit is *)
(* the call: the requested size, self.sizes as the set of its elements    *)
(* (the code only tests membership), and the outcome once it has run.     *)
(***************************************************************************)
SIZES_index(size) == CHOOSE i \in 1..Len(SIZES) : SIZES[i] = size

\* the distance without abs()
DistSigned(a, b) == a - b

\* abs(idx_size_wanted - idx_size)
Dist(a, b) == IF a >= b THEN a - b ELSE b - a

\* the loop of find_closest_size from position idx_size of SIZES on
RECURSIVE find_closest_from(_, _, _, _, _)
find_closest_from(idx_size, idx_size_wanted, sizes, dist_min, size_best_fit) ==
    IF idx_size > Len(SIZES) THEN size_best_fit
    ELSE LET dist == Dist(idx_size_wanted, idx_size)
         IN  IF SIZES[idx_size] \in sizes /\ dist < dist_min
             THEN find_closest_from(idx_size + 1, idx_size_wanted, sizes,
                                    dist, <<SIZES[idx_size]>>)
             ELSE find_closest_from(idx_size + 1, idx_size_wanted, sizes,
                                    dist_min, size_best_fit)

\* None when no element of sizes is in SIZES, else <<size_best_fit>>
find_closest_size(sizes, size) ==
    find_closest_from(1, SIZES_index(size), sizes, Len(SIZES), None)

\* [raised, ret]: ret is the returned size, raised the exception's class
get_size(sizes, size) ==
    IF size = "WM" THEN [raised |-> None, ret |-> <<size>>]
    ELSE IF size \in sizes THEN [raised |-> None, ret |-> <<size>>]
    ELSE LET size_best_fit == find_closest_size(sizes, size)
         IN  IF size_best_fit = None
             THEN [raised |-> <<"KeyError">>, ret |-> None]
             ELSE [raised |-> None, ret |-> size_best_fit]

MaxSizes == 2      \* available sizes of the texture, besides the example list

SizeNames == {SIZES[i] : i \in 1..Len(SIZES)}

SizeLists ==
    {S \in SUBSET SizeNames : Cardinality(S) <= MaxSizes}
        \cup {{"1K", "2K", "4K", "8K"}}

InitSize ==
    /\ download_queue = [a \in Assets |-> NoEntry]
    /\ download_cancelled = {}
    /\ runs = <<>>
    /\ temp = [p \in Assets \X Files |-> Absent]
    /\ final = [p \in Assets \X Files |-> Absent]
    /\ is_local = [a \in Assets |-> "None"]
    /\ ui = [pc |-> "idle", asset |-> 0, run |-> 0, raised |-> FALSE]
    /\ env = [events |-> 0]
    /\ fd = <<>>
    /\ unit \in [pc : {"call"}, size : SizeNames, sizes : SizeLists,
                 raised : {None}, ret : {None}]

GetSize ==
    /\ unit.pc = "call"
    /\ LET r == get_size(unit.sizes, unit.size)
       IN  unit' = [unit EXCEPT !.pc = "done", !.raised = r.raised,
                                !.ret = r.ret]
    /\ PoolUnchanged

NextSize ==
    \/ GetSize

SpecSize == InitSize /\ [][NextSize]_vars

(***************************************************************************)
(* thread_manager.py: the registry of ThreadPoolExecutors under arbitrary *)
(* sequences of get_pool, queue_thread and shutdown calls of one caller.  *)
(* unit.pools are the executors ever created, in creation order, a pool's *)
(* identity being its position; unit.thread_pools maps the registered    *)
(* keys to them; an optional argument is <<>> for None and <<n>> else.    *)
(***************************************************************************)
DEFAULT_MAX_THREADS == 10

PoolKeys == {"INTERACTIVE", "PREVIEW_DL", "ASSET_DL"}

\* ThreadPoolExecutor(max_workers): ValueError unless max_workers > 0
ThreadPoolExecutor(max_workers) ==
    [max_workers |-> max_workers, shut |-> FALSE, submitted |-> 0]

\* ThreadManager.__init__
ThreadManager(max_threads) ==
    [thread_pools |-> <<>>, pools |-> <<>>, max_threads |-> max_threads]

TMResult(self, raised, ret) == [tm |-> self, raised |-> raised, ret |-> ret]

\* a get_pool that builds a new executor of the requested size on every call
get_pool_resized(self, key_pool, max_threads, no_create) ==
    IF no_create /\ key_pool \notin DOMAIN self.thread_pools
    THEN TMResult(self, None, None)
    ELSE LET n == IF max_threads = None THEN self.max_threads
                  ELSE max_threads[1]
             tpe == Len(self.pools) + 1
         IN  IF n <= 0 THEN TMResult(self, <<"ValueError">>, None)
             ELSE TMResult([self EXCEPT
                               !.pools = Append(@, ThreadPoolExecutor(n)),
                               !.thread_pools = SetItem(@, key_pool, tpe)],
                           None, <<tpe>>)

\* ret: the pool as <<position in pools>>, None for "no pool"
get_pool(self, key_pool, max_threads, no_create) ==
    IF key_pool \in DOMAIN self.thread_pools
    THEN TMResult(self, None, <<self.thread_pools[key_pool]>>)
    ELSE IF no_create THEN TMResult(self, None, None)
    ELSE LET n == IF max_threads = None THEN self.max_threads
                  ELSE max_threads[1]
             tpe == Len(self.pools) + 1
         IN  IF n <= 0 THEN TMResult(self, <<"ValueError">>, None)
             ELSE TMResult([self EXCEPT
                               !.pools = Append(@, ThreadPoolExecutor(n)),
                               !.thread_pools = SetItem(@, key_pool, tpe)],
                           None, <<tpe>>)

\* a queue_thread that wraps the foreground call and hands back the exception
queue_thread_caught(self, func, key_pool, max_threads, foreground) ==
    LET n == IF max_threads = None \/ max_threads[1] <= 0
             THEN <<self.max_threads>> ELSE max_threads
        key == IF key_pool = None THEN "INTERACTIVE" ELSE key_pool[1]
    IN  IF foreground
        THEN TMResult(self, None, <<"value", func>>)
        ELSE LET got == get_pool(self, key, n, FALSE)
             IN  IF got.raised # None THEN got
                 ELSE IF got.tm.pools[got.ret[1]].shut
                 THEN TMResult(got.tm, <<"RuntimeError">>, None)
                 ELSE TMResult([got.tm EXCEPT
                                   !.pools[got.ret[1]].submitted = @ + 1],
                               None, <<"Future", got.ret[1], func>>)

\* func is "returns" or "raises"; ret is <<"value", func>> for what a
\* foreground call returned and <<"Future", pool, func>> for the Future of a
\* submitted call, which holds func's result or exception once it has run
queue_thread(self, func, key_pool, max_threads, foreground) ==
    LET n == IF max_threads = None \/ max_threads[1] <= 0
             THEN <<self.max_threads>> ELSE max_threads
        key == IF key_pool = None THEN "INTERACTIVE" ELSE key_pool[1]
    IN  IF foreground
        THEN IF func = "raises" THEN TMResult(self, <<"Exception">>, None)
             ELSE TMResult(self, None, <<"value", func>>)
        ELSE LET got == get_pool(self, key, n, FALSE)
             IN  IF got.raised # None THEN got
                 ELSE IF got.tm.pools[got.ret[1]].shut
                 THEN TMResult(got.tm, <<"RuntimeError">>, None)
                 ELSE TMResult([got.tm EXCEPT
                                   !.pools[got.ret[1]].submitted = @ + 1],
                               None, <<"Future", got.ret[1], func>>)

\* a shutdown(key) that shuts the pool down and leaves it registered
shutdown_kept(self, key_pool) ==
    IF key_pool = None
    THEN TMResult([self EXCEPT
                      !.pools = [i \in DOMAIN @ |->
                                    IF \E k \in DOMAIN self.thread_pools :
                                          self.thread_pools[k] = i
                                    THEN [@[i] EXCEPT !.shut = TRUE] ELSE @[i]],
                      !.thread_pools = <<>>],
                  None, None)
    ELSE IF key_pool[1] \in DOMAIN self.thread_pools
    THEN TMResult([self EXCEPT
                      !.pools[self.thread_pools[key_pool[1]]].shut = TRUE],
                  None, None)
    ELSE TMResult(self, None, None)

shutdown(self, key_pool) ==
    IF key_pool = None
    THEN TMResult([self EXCEPT
                      !.pools = [i \in DOMAIN @ |->
                                    IF \E k \in DOMAIN self.thread_pools :
                                          self.thread_pools[k] = i
                                    THEN [@[i] EXCEPT !.shut = TRUE] ELSE @[i]],
                      !.thread_pools = <<>>],
                  None, None)
    ELSE IF key_pool[1] \in DOMAIN self.thread_pools
    THEN TMResult([self EXCEPT
                      !.pools[self.thread_pools[key_pool[1]]].shut = TRUE,
                      !.thread_pools =
                          [k \in DOMAIN @ \ {key_pool[1]} |-> @[k]]],
                  None, None)
    ELSE TMResult(self, None, None)

MaxTMOps == 3        \* calls on the ThreadManager in one behaviour

TMKeys == {"INTERACTIVE", "ASSET_DL"}
TMMaxThreads == {None, <<0>>, <<MAX_PARALLEL_ASSET_DOWNLOADS>>}
TMFuncs == {"returns", "raises"}

InitTM ==
    /\ download_queue = [a \in Assets |-> NoEntry]
    /\ download_cancelled = {}
    /\ runs = <<>>
    /\ temp = [p \in Assets \X Files |-> Absent]
    /\ final = [p \in Assets \X Files |-> Absent]
    /\ is_local = [a \in Assets |-> "None"]
    /\ ui = [pc |-> "idle", asset |-> 0, run |-> 0, raised |-> FALSE]
    /\ env = [events |-> 0]
    /\ fd = <<>>
    /\ unit = [tm |-> ThreadManager(DEFAULT_MAX_THREADS),
               op |-> [name |-> "init", args |-> <<>>, raised |-> None,
                       ret |-> None],
               removed |-> {},
               left |-> MaxTMOps]

\* op is the last call with its outcome; removed are the keys whose pool a
\* call has taken out of the registry so far
TMStep(name, args, res) ==
    /\ unit.left > 0
    /\ unit' = [tm |-> res.tm,
                op |-> [name |-> name, args |-> args, raised |-> res.raised,
                        ret |-> res.ret],
                removed |-> unit.removed \cup
                            (DOMAIN unit.tm.thread_pools
                                \ DOMAIN res.tm.thread_pools),
                left |-> unit.left - 1]
    /\ PoolUnchanged

TMGetPool ==
    \E key_pool \in TMKeys, max_threads \in TMMaxThreads \ {<<0>>},
       no_create \in BOOLEAN :
        /\ no_create => max_threads = None
        /\ TMStep("get_pool", <<key_pool, max_threads, no_create>>,
                  get_pool(unit.tm, key_pool, max_threads, no_create))

\* a foreground call uses neither key_pool nor max_threads
TMQueueThread ==
    \E func \in TMFuncs, key_pool \in {None} \cup {<<k>> : k \in TMKeys},
       max_threads \in TMMaxThreads, foreground \in BOOLEAN :
        /\ foreground => key_pool = None /\ max_threads = None
        /\ TMStep("queue_thread", <<func, key_pool, max_threads, foreground>>,
                  queue_thread(unit.tm, func, key_pool, max_threads,
                               foreground))

TMShutdown ==
    \E key_pool \in {None} \cup {<<k>> : k \in TMKeys} :
        /\ unit.left > 0
        /\ TMStep("shutdown", <<key_pool>>, shutdown(unit.tm, key_pool))

NextTM ==
    \/ TMGetPool
    \/ TMQueueThread
    \/ TMShutdown

SpecTM == InitTM /\ [][NextTM]_vars

(***************************************************************************)
(* api.py: the auth token of PoliigonConnector under requests in flight   *)
(* on several threads.  A login is known by its number; unit.valid are    *)
(* the logins the server still accepts; a request carries the login it    *)
(* was sent under and is answered "unauthorized" (401 for a stream) once  *)
(* the server has invalidated that login.  unit.calls counts the          *)
(* invocations of the registered _on_invalidated callback, unit.detected  *)
(* the logins for which a request has seen the refusal.                   *)
(***************************************************************************)
NumRequests == 2     \* requests (threads) of one behaviour
MaxLogins == 1       \* logins after the first one

Requests == 1..NumRequests

ApiResponse(ok, error) == [ok |-> ok, error |-> error]

\* the part of _request_url after the answer has come; self is the connector
\* [token, invalidated, calls], unauthorized what line 338-339 finds in the text
request_url_answer(self, unauthorized, do_invalidate) ==
    IF unauthorized
    THEN [self |-> [token |-> None,
                    invalidated |-> IF do_invalidate THEN TRUE
                                    ELSE self.invalidated,
                    calls |-> IF do_invalidate THEN self.calls + 1
                              ELSE self.calls],
          res |-> ApiResponse(FALSE, <<"ERR_NOT_AUTHORIZED">>)]
    ELSE [self |-> self, res |-> ApiResponse(TRUE, None)]

\* the part of _request_stream after the answer has come
request_stream_answer(self, unauthorized) ==
    IF unauthorized
    THEN [self |-> [token |-> None, invalidated |-> TRUE,
                    calls |-> self.calls],
          res |-> ApiResponse(FALSE, <<"ERR_NOT_AUTHORIZED">>)]
    ELSE [self |-> self, res |-> ApiResponse(TRUE, None)]

Connector(u) ==
    [token |-> u.token, invalidated |-> u.invalidated, calls |-> u.calls]

InitAuth ==
    /\ download_queue = [a \in Assets |-> NoEntry]
    /\ download_cancelled = {}
    /\ runs = <<>>
    /\ temp = [p \in Assets \X Files |-> Absent]
    /\ final = [p \in Assets \X Files |-> Absent]
    /\ is_local = [a \in Assets |-> "None"]
    /\ ui = [pc |-> "idle", asset |-> 0, run |-> 0, raised |-> FALSE]
    /\ env = [events |-> 0]
    /\ fd = <<>>
    /\ unit = [token |-> <<1>>, invalidated |-> FALSE, calls |-> 0,
               logins |-> 1, valid |-> {1}, detected |-> {},
               req |-> [r \in Requests |->
                           [pc |-> "idle", kind |-> "none", login |-> 0,
                            res |-> None]]]

\* _request_authenticated up to the sending of the request; without a token
\* it returns at once
AuthRequest(r) ==
    /\ unit.req[r].pc = "idle"
    /\ unit' = [unit EXCEPT !.req[r] =
                   IF unit.token = None
                   THEN [pc |-> "done", kind |-> "url", login |-> 0,
                         res |-> <<ApiResponse(FALSE, <<"ERR_NOT_AUTHORIZED">>)>>]
                   ELSE [pc |-> "sent", kind |-> "url",
                         login |-> unit.token[1], res |-> None]]
    /\ PoolUnchanged

\* _request_stream up to session.get, on a URL issued under the last login
StreamRequest(r) ==
    /\ unit.req[r].pc = "idle"
    /\ unit' = [unit EXCEPT !.req[r] =
                   [pc |-> "sent", kind |-> "stream", login |-> unit.logins,
                    res |-> None]]
    /\ PoolUnchanged

\* the server stops accepting a login
ServerInvalidates ==
    /\ \E l \in unit.valid : unit' = [unit EXCEPT !.valid = @ \ {l}]
    /\ PoolUnchanged

\* the answer arrives and the rest of _request_url or _request_stream runs
Answer(r) ==
    /\ unit.req[r].pc = "sent"
    /\ LET unauthorized == unit.req[r].login \notin unit.valid
           out == IF unit.req[r].kind = "url"
                  THEN request_url_answer(Connector(unit), unauthorized, TRUE)
                  ELSE request_stream_answer(Connector(unit), unauthorized)
       IN  unit' = [unit EXCEPT
                       !.token = out.self.token,
                       !.invalidated = out.self.invalidated,
                       !.calls = out.self.calls,
                       !.detected = IF unauthorized
                                    THEN @ \cup {unit.req[r].login} ELSE @,
                       !.req[r].pc = "done",
                       !.req[r].res = <<out.res>>]
    /\ PoolUnchanged

\* log_in, answered with a new access token (api.py 560-561)
LogIn ==
    /\ unit.token = None
    /\ unit.logins <= MaxLogins
    /\ unit' = [unit EXCEPT !.token = <<unit.logins + 1>>,
                            !.invalidated = FALSE,
                            !.logins = @ + 1,
                            !.valid = @ \cup {unit.logins + 1}]
    /\ PoolUnchanged

NextAuth ==
    \/ \E r \in Requests : AuthRequest(r)
    \/ \E r \in Requests : StreamRequest(r)
    \/ ServerInvalidates
    \/ \E r \in Requests : Answer(r)
    \/ LogIn

SpecAuth == InitAuth /\ [][NextAuth]_vars

(***************************************************************************)
(* addon.py 439-506: the retry loop of one download_asset run under any   *)
(* number of failed URL resolutions.  unit.run is the run (as in runs),   *)
(* unit.attempts the get_download_list calls it has made; a file thread   *)
(* is reduced to its start and its end with one of the results of         *)
(* download_asset_file.  The user may press cancel once.                  *)
(***************************************************************************)
RetryAsset == Min(Assets)

RetryUnchanged ==
    UNCHANGED <<download_queue, runs, temp, final, is_local, ui, env, fd>>

InitRetry ==
    /\ download_queue = [a \in Assets |-> NoEntry]
    /\ download_cancelled = {}
    /\ runs = <<>>
    /\ temp = [p \in Assets \X Files |-> Absent]
    /\ final = [p \in Assets \X Files |-> Absent]
    /\ is_local = [a \in Assets |-> "None"]
    /\ ui = [pc |-> "idle", asset |-> 0, run |-> 0, raised |-> FALSE]
    /\ env = [events |-> 0]
    /\ fd = <<>>
    /\ unit = [run |-> LoopHead(NewRun(RetryAsset)), attempts |-> 1,
               cancels |-> 1]

\* the run goes on as run2; entering "resolving" is a get_download_list call
RetryStep(run2) ==
    unit' = [unit EXCEPT
                !.run = run2,
                !.attempts = IF run2.pc = "resolving" THEN @ + 1 ELSE @]

\* lines 449-465, as RunResolved
RetryResolved(res) ==
    LET run == unit.run
        cancel == ~download_update(run.asset)
    IN  /\ run.pc = "resolving"
        /\ IF res = "raise" THEN RetryStep(EndRun(run, "raised"))
           ELSE IF cancel
           THEN RetryStep([run EXCEPT !.pc = "finish", !.user_cancel = TRUE])
           ELSE IF res = "fail"
           THEN RetryStep(LoopHead([run EXCEPT !.user_cancel = FALSE,
                                               !.retries = @ - 1]))
           ELSE RetryStep([run EXCEPT
                              !.pc = "poll", !.user_cancel = FALSE,
                              !.dl = schedule_downloads(
                                  IF res = "empty" THEN <<>>
                                  ELSE UrlList(run.asset))])
        /\ UNCHANGED download_cancelled
        /\ RetryUnchanged

\* lines 468-488, as RunPoll
RetryPoll ==
    LET run == unit.run
        cd == check_downloads(run.dl)
        cancel == ~download_update(run.asset)
    IN  /\ run.pc = "poll"
        /\ IF cd.raised \/ SumSizeExpected(run.dl) = 0
           THEN RetryStep(EndRun(run, "raised"))
           ELSE IF cd.all_done /\ ~cd.any_error
           THEN RetryStep(LoopHead([run EXCEPT !.retries = -1,
                                               !.all_done = TRUE,
                                               !.any_error = FALSE,
                                               !.user_cancel = cancel]))
           ELSE IF cd.any_error \/ cancel
           THEN RetryStep([run EXCEPT !.pc = "cancel_wait",
                                      !.all_done = cd.all_done,
                                      !.any_error = cd.any_error,
                                      !.user_cancel = cancel,
                                      !.dl = cancel_downloads(run.dl)])
           ELSE RetryStep([run EXCEPT !.all_done = cd.all_done,
                                      !.any_error = cd.any_error,
                                      !.user_cancel = cancel])
        /\ UNCHANGED download_cancelled
        /\ RetryUnchanged

\* lines 713-727 and 488, as RunCancelWait
RetryCancelWait(timeout) ==
    LET run == unit.run
    IN  /\ run.pc = "cancel_wait"
        /\ IF timeout
           THEN /\ ~CancelWaitRaises(run.dl)
                /\ CancelWaitBlockedAt(run.dl) <= Len(run.dl)
                /\ RetryStep(EndRun(run, "raised"))
           ELSE \/ /\ CancelWaitRaises(run.dl)
                   /\ RetryStep(EndRun(run, "raised"))
                \/ /\ CancelWaitReturns(run.dl)
                   /\ RetryStep(LoopHead([run EXCEPT !.retries = @ - 1]))
        /\ UNCHANGED download_cancelled
        /\ RetryUnchanged

\* lines 493-506
RetryFinish ==
    /\ unit.run.pc = "finish"
    /\ RetryStep(EndRun(unit.run, "done"))
    /\ download_cancelled' = download_cancelled \ {unit.run.asset}
    /\ RetryUnchanged

\* a worker of the run's executor takes the file
RetryFileStart(i) ==
    LET d == unit.run.dl[i]
    IN  /\ d.fut = "pending"
        /\ RetryStep([unit.run EXCEPT !.dl[i].fut = "running"])
        /\ UNCHANGED download_cancelled
        /\ RetryUnchanged

\* download_asset_file returns or raises: "ret_ok" with DONE, "ret_request"
\* (stream request refused), "ret_write" with ERROR, "raised"; a descriptor
\* that is CANCELLED is not started ("ret_nostart")
RetryFileEnd(i, out) ==
    LET d == unit.run.dl[i]
        so == set_status_ongoing(d)
    IN  /\ d.fut = "running"
        /\ RetryStep([unit.run EXCEPT !.dl[i] =
              CASE out \in {"ret_request", "raised"} ->
                      [d EXCEPT !.fut = "done", !.pc = out]
                [] ~so.res ->
                      [d EXCEPT !.fut = "done", !.pc = "ret_nostart"]
                [] out = "ret_write" ->
                      [set_status_error(so.d) EXCEPT
                          !.fut = "done", !.pc = "ret_write"]
                [] OTHER ->
                      [set_status_done(so.d) EXCEPT
                          !.size_downloaded = d.size_expected,
                          !.fut = "done", !.pc = "ret_ok"]])
        /\ UNCHANGED download_cancelled
        /\ RetryUnchanged

RetryUserCancel ==
    /\ unit.cancels > 0
    /\ ~RunEnded(unit.run)
    /\ unit' = [unit EXCEPT !.cancels = @ - 1]
    /\ download_cancelled' = download_cancelled \cup {unit.run.asset}
    /\ RetryUnchanged

RetryFileResults == {"ret_ok", "ret_request", "ret_write", "raised"}

RetryRunSteps ==
    \/ \E res \in ResolveResults : RetryResolved(res)
    \/ RetryPoll
    \/ \E timeout \in BOOLEAN : RetryCancelWait(timeout)
    \/ RetryFinish

RetryFileSteps ==
    \/ \E i \in DOMAIN unit.run.dl : RetryFileStart(i)
    \/ \E i \in DOMAIN unit.run.dl :
          \E out \in RetryFileResults : RetryFileEnd(i, out)

NextRetry ==
    \/ RetryRunSteps
    \/ RetryFileSteps
    \/ RetryUserCancel

SpecRetry == InitRetry /\ [][NextRetry]_vars

\* the thread of the run is scheduled, and every file thread runs to its end
SpecRetryFair ==
    SpecRetry /\ WF_vars(RetryRunSteps) /\ WF_vars(RetryFileSteps)

\* ----- addon.py: queue_purchase and purchase_asset (INTERACTIVE pool) -----
\* unit.purchase_queue maps an asset id to its future (the index of its job)
\* or to NoEntry; unit.jobs are the submitted purchase_asset calls;
\* unit.caller is the thread inside queue_purchase; unit.is_purchased is the
\* is_purchased field of the assets of the index.
MaxPurchases == 2

is_purchase_queued(purchase_queue, asset_id) ==
    purchase_queue[asset_id] # NoEntry

InitPurchase ==
    /\ download_queue = [a \in Assets |-> NoEntry]
    /\ download_cancelled = {}
    /\ runs = <<>>
    /\ temp = [p \in Assets \X Files |-> Absent]
    /\ final = [p \in Assets \X Files |-> Absent]
    /\ is_local = [a \in Assets |-> "None"]
    /\ ui = [pc |-> "idle", asset |-> 0, run |-> 0, raised |-> FALSE]
    /\ env = [events |-> 0]
    /\ fd = <<>>
    /\ unit = [purchase_queue |-> [a \in Assets |-> NoEntry],
               jobs |-> <<>>,
               caller |-> [pc |-> "idle", asset |-> 0, future |-> 0],
               is_purchased |-> [a \in Assets |-> None],
               left |-> MaxPurchases]

\* queue_purchase, line 309: purchase_asset is submitted to the pool and the
\* future comes back.
PurchaseSubmit(a) ==
    /\ unit.left > 0
    /\ unit.caller.pc = "idle"
    /\ unit' = [unit EXCEPT
           !.jobs = Append(@, [asset |-> a, pc |-> "pending", ok |-> FALSE]),
           !.caller = [pc |-> "store", asset |-> a,
                       future |-> Len(unit.jobs) + 1],
           !.left = @ - 1]
    /\ PoolUnchanged

\* queue_purchase, lines 310-312: the future is written into purchase_queue.
PurchaseStore ==
    /\ unit.caller.pc = "store"
    /\ unit' = [unit EXCEPT
           !.purchase_queue[unit.caller.asset] = unit.caller.future,
           !.caller = [pc |-> "idle", asset |-> 0, future |-> 0]]
    /\ PoolUnchanged

\* purchase_asset, line 316: a worker runs the job and the API request
\* completes with req.ok = ok.
PurchaseRequest(j, ok) ==
    /\ unit.jobs[j].pc = "pending"
    /\ unit' = [unit EXCEPT !.jobs[j].pc = "requested", !.jobs[j].ok = ok]
    /\ PoolUnchanged

\* purchase_asset, lines 319-328: del purchase_queue[asset_id], which raises
\* KeyError for a missing key, then mark_purchased if req.ok.
PurchaseRemove(j) ==
    LET job == unit.jobs[j]
        a == job.asset
    IN  /\ job.pc = "requested"
        /\ IF ~is_purchase_queued(unit.purchase_queue, a)
           THEN unit' = [unit EXCEPT !.jobs[j].pc = "raised"]
           ELSE unit' = [unit EXCEPT
                    !.jobs[j].pc = "done",
                    !.purchase_queue[a] = NoEntry,
                    !.is_purchased[a] = IF job.ok THEN <<TRUE>> ELSE @]
        /\ PoolUnchanged

NextPurchase ==
    \/ \E a \in Assets : PurchaseSubmit(a)
    \/ PurchaseStore
    \/ \E j \in DOMAIN unit.jobs : \E ok \in BOOLEAN : PurchaseRequest(j, ok)
    \/ \E j \in DOMAIN unit.jobs : PurchaseRemove(j)

SpecPurchase == InitPurchase /\ [][NextPurchase]_vars

\* ----- asset_index.py: the index, its query cache and its cache file -----
\* unit.path_cache: whether a cache path is set (len(path_cache) >= 2);
\* unit.file: the asset list in the file at path_cache, None if there is no
\* file; unit.before: all_assets before the last call; unit.op: the last
\* call and whether it raised.
MaxStoreOps == 3

StorePopulateKeys == {<<"poliigon", "All Assets">>, <<"my_assets", "All Assets">>}

StoreDirs == {{}, {5, 8}}

\* Indexes a session starts the calls from: empty, or asset 1 as the catalog
\* gave it or with the files update_from_directory found.
StoreIndexes ==
    {<<>>} \cup {1 :> CacheAsset(1, type, dir_asset) :
                    type \in {"Models", "Textures"}, dir_asset \in StoreDirs}

\* save_cache, lines 1275-1288: asdict of all_assets.values(), in the order
\* of the ids, written to path_cache.
save_cache_file(all_assets) ==
    LET ids == get_asset_id_list(all_assets, None, 1)
    IN  [i \in DOMAIN ids |-> DumpAsset(all_assets[ids[i]])]

\* load_cache, lines 1293-1311: FileNotFoundError without a path or a file
\* (all_assets untouched), else all_assets is emptied and filled.
load_cache_file(all_assets, path_cache, file) ==
    IF ~path_cache \/ file = None
    THEN [all_assets |-> all_assets, raised |-> TRUE]
    ELSE load_cache(file[1])

InitStore ==
    /\ download_queue = [a \in Assets |-> NoEntry]
    /\ download_cancelled = {}
    /\ runs = <<>>
    /\ temp = [p \in Assets \X Files |-> Absent]
    /\ final = [p \in Assets \X Files |-> Absent]
    /\ is_local = [a \in Assets |-> "None"]
    /\ ui = [pc |-> "idle", asset |-> 0, run |-> 0, raised |-> FALSE]
    /\ env = [events |-> 0]
    /\ fd = <<>>
    /\ \E all_assets \in StoreIndexes, path_cache \in BOOLEAN :
          unit = [all_assets |-> all_assets,
                  cached_queries |-> <<>>,
                  path_cache |-> path_cache,
                  file |-> None,
                  before |-> all_assets,
                  op |-> [name |-> "init", raised |-> FALSE],
                  left |-> MaxStoreOps]

StoreStep(all_assets, cached_queries, file, name, raised) ==
    /\ unit.left > 0
    /\ unit' = [unit EXCEPT !.all_assets = all_assets,
                            !.cached_queries = cached_queries,
                            !.file = file,
                            !.before = unit.all_assets,
                            !.op = [name |-> name, raised |-> raised],
                            !.left = @ - 1]
    /\ PoolUnchanged

StorePopulate(resp, key_query, append_query) ==
    /\ unit.left > 0
    /\ LET res == populate_assets([all_assets |-> unit.all_assets,
                                   cached_queries |-> unit.cached_queries,
                                   raised |-> FALSE],
                                  resp, key_query, append_query)
       IN  StoreStep(res.all_assets, res.cached_queries, unit.file,
                     "populate_assets", res.raised)

StoreLoadAsset(asset_dict) ==
    /\ ~construct_asset_raises(asset_dict)
    /\ LET asset_data == construct_asset(asset_dict, None)
       IN  StoreStep(load_asset(unit.all_assets, asset_data),
                     unit.cached_queries, unit.file, "load_asset",
                     load_asset_raises(unit.all_assets, asset_data))

StoreFlush(all_assets) ==
    /\ unit.left > 0
    /\ StoreStep(IF all_assets THEN <<>> ELSE unit.all_assets, <<>>,
                 unit.file, "flush", FALSE)

StoreMarkPurchased(asset_id) ==
    /\ unit.left > 0
    /\ StoreStep(mark_purchased(unit.all_assets, asset_id),
                 unit.cached_queries, unit.file, "mark_purchased", FALSE)

StoreUpdateFromDirectory(asset_id, dir_asset) ==
    IF asset_id \notin DOMAIN unit.all_assets
    THEN StoreStep(unit.all_assets, unit.cached_queries, unit.file,
                   "update_from_directory", TRUE)
    ELSE StoreStep(update_from_directory(unit.all_assets, asset_id, dir_asset,
                                         "REGULAR").all_assets,
                   unit.cached_queries, unit.file, "update_from_directory",
                   FALSE)

StoreSaveCache ==
    IF ~unit.path_cache
    THEN StoreStep(unit.all_assets, unit.cached_queries, unit.file,
                   "save_cache", TRUE)
    ELSE StoreStep(unit.all_assets, unit.cached_queries,
                   <<save_cache_file(unit.all_assets)>>, "save_cache", FALSE)

StoreLoadCache ==
    /\ unit.left > 0
    /\ LET res == load_cache_file(unit.all_assets, unit.path_cache, unit.file)
       IN  StoreStep(res.all_assets, unit.cached_queries, unit.file,
                     "load_cache", res.raised)

NextStore ==
    \/ \E resp \in Responses, key_query \in StorePopulateKeys,
          append_query \in BOOLEAN :
          StorePopulate(resp, key_query, append_query)
    \/ \E asset_dict \in AssetDicts : StoreLoadAsset(asset_dict)
    \/ \E all_assets \in BOOLEAN : StoreFlush(all_assets)
    \/ \E asset_id \in IndexIds : StoreMarkPurchased(asset_id)
    \/ \E asset_id \in IndexIds, dir_asset \in IndexDirs :
          StoreUpdateFromDirectory(asset_id, dir_asset)
    \/ StoreSaveCache
    \/ StoreLoadCache

SpecStore == InitStore /\ [][NextStore]_vars

\* ======================= properties =======================
Dl(r) == runs[r].dl
DlIds(r) == DOMAIN runs[r].dl
IsFinal(st) == st \in {"DONE", "ERROR"}

\* C1: for every asset at most one download_asset run is pending or running
\* at any time, also when queue_download is called again before the first
\* download has completed.
C1_AtMostOneRunPerAsset ==
    \A a \in Assets :
        Cardinality({r \in RunIds : runs[r].asset = a /\ ~RunEnded(runs[r])}) <= 1

\* C2: whenever a download_asset run ends, for whatever reason, its asset id
\* is no longer a key of download_queue.
C2_EndedRunLeavesQueue ==
    [][\A r \in RunIds :
          (~RunEnded(runs[r]) /\ RunEnded(runs'[r]))
              => download_queue'[runs[r].asset] = NoEntry]_vars

\* C3: once the status of a FileDownload is DONE or ERROR, a call of
\* set_status_cancelled or set_status_ongoing leaves it unchanged, in every
\* order of calls of the download thread and the cancelling thread.
C3_FinalStatusKept ==
    [][\A t \in FDThreads :
          LET c == fd.th[t]
          IN  (/\ c.pc = "locked"
               /\ fd'.th[t].pc = "idle"
               /\ c.op \in {"set_status_cancelled", "set_status_ongoing"}
               /\ IsFinal(fd.d[c.i].status))
                  => fd'.d[c.i].status = fd.d[c.i].status]_vars

\* C4: set_status_ongoing on a CANCELLED descriptor returns false and leaves
\* the status CANCELLED; the file download returns through the
\* cancelled-before-start exit without creating or writing its temp file.
C4_CancelledNeverStarts ==
    [][\A r \in RunIds : \A i \in DlIds(r) :
          LET d == Dl(r)[i]
          IN  (/\ d.pc = "opened"
               /\ d.status = "CANCELLED"
               /\ runs'[r].dl[i].pc # "opened")
                  => /\ runs'[r].dl[i].pc = "ret_nostart"
                     /\ runs'[r].dl[i].fut = "done"
                     /\ runs'[r].dl[i].status = "CANCELLED"
                     /\ runs'[r].dl[i].size_downloaded = d.size_downloaded
                     /\ temp' = temp
                     /\ final' = final]_vars

C4_Witness ==
    \E r \in RunIds : \E i \in DlIds(r) :
        /\ Dl(r)[i].pc = "ret_nostart"
        /\ Dl(r)[i].status = "CANCELLED"
        /\ temp[Path(Dl(r)[i])] = Absent

\* C5: a file at its final path implies that every file of the asset's file
\* set is on disk with its complete content.
C5_FinalImpliesComplete ==
    \A a \in Assets : \A f \in Files :
        final[<<a, f>>] # Absent
            => \A g \in Files : \/ final[<<a, g>>] = FileSizes[g]
                                \/ temp[<<a, g>>] = FileSizes[g]

\* C6: when all file downloads of an attempt completed with ok=true and the
\* user did not cancel, the closing step of download_asset leaves every file
\* of the attempt at its final path without a temp file, is_local True for
\* the asset, and the asset outside download_cancelled.
C6_SuccessFinalizes ==
    [][\A r \in RunIds :
          LET run == runs[r]
          IN  (/\ run.pc = "finish"
               /\ runs'[r].pc = "done"
               /\ run.all_done /\ ~run.any_error /\ ~run.user_cancel)
                  => /\ \A i \in DOMAIN run.dl :
                            /\ temp'[Path(run.dl[i])] = Absent
                            /\ final'[Path(run.dl[i])] # Absent
                     /\ is_local'[run.asset] = "True"
                     /\ run.asset \notin download_cancelled']_vars

\* C7: an empty URL list is answered by a decrement of the retry budget and
\* another resolution; the empty list is never scheduled and polled.
C7_EmptyListRetried ==
    [][\A r \in RunIds :
          (runs[r].pc = "resolving" /\ runs'[r].pc = "poll")
              => runs'[r].dl # <<>>]_vars

\* C8: a poll that finds a file future finished with ok=false or with an
\* exception cancels every descriptor and future of the attempt and goes on
\* to wait for the started downloads.
C8_FailedFileCancelsAttempt ==
    [][\A r \in RunIds :
          (/\ runs[r].pc = "poll"
           /\ runs'[r].pc # "poll"
           /\ \E i \in DlIds(r) : FutDone(Dl(r)[i]) /\ ~ResOk(Dl(r)[i]))
              => /\ runs'[r].pc = "cancel_wait"
                 /\ \A i \in DlIds(r) :
                        /\ runs'[r].dl[i].status \in {"CANCELLED", "DONE", "ERROR"}
                        /\ runs'[r].dl[i].fut # "pending"]_vars

C10_CancelledBeforeStart ==
    [][\A r \in RunIds :
          (/\ runs[r].pc = "pending"
           /\ runs'[r].pc # "pending"
           /\ runs[r].asset \in download_cancelled)
              => /\ runs'[r].pc = "returned"
                 /\ runs'[r].dl = <<>>
                 /\ download_queue'[runs[r].asset] = NoEntry
                 /\ runs[r].asset \notin download_cancelled']_vars

\* C11: a retry iteration of download_asset that begins while its asset is in
\* download_cancelled issues no URL-resolution request: the result of the
\* download_update call at the head of the iteration is acted on.
C11_CancelCheckedBeforeRequest ==
    [][\A r \in RunIds :
          (/\ runs'[r].pc = "resolving"
           /\ \/ runs[r].pc # "resolving"
              \/ runs[r].retries # runs'[r].retries)
              => runs[r].asset \notin download_cancelled']_vars

\* C12: a file thread that is streaming and finds its descriptor CANCELLED
\* writes at most one further chunk and then leaves the streaming loop.
C12_CancelWithinOneChunk ==
    [][\A r \in RunIds : \A i \in DlIds(r) :
          LET d == Dl(r)[i]
          IN  (/\ d.pc = "stream"
               /\ d.status = "CANCELLED"
               /\ i \in DOMAIN runs'[r].dl
               /\ runs'[r].dl[i] # d)
                  => /\ runs'[r].dl[i].pc # "stream"
                     /\ runs'[r].dl[i].fut = "done"
                     /\ runs'[r].dl[i].size_downloaded <= d.size_downloaded + 1]_vars

\* A cancelled stream that stopped before the end of a complete stream: the
\* only events of the behaviour are one queue_download and one cancel.
C12_Witness ==
    /\ env.events = MaxEvents - 2
    /\ Len(runs) = 1
    /\ \E i \in DlIds(1) :
          /\ Dl(1)[i].status = "CANCELLED"
          /\ Dl(1)[i].pc = "ret_mismatch"
          /\ Dl(1)[i].size_downloaded = 1
          /\ Dl(1)[i].size_expected = 2

\* C13: at most MAX_PARALLEL_ASSET_DOWNLOADS download_asset runs execute at
\* once, and for every asset at most MAX_PARALLEL_DOWNLOADS_PER_ASSET file
\* downloads execute at once.
C13_PoolCaps ==
    /\ Cardinality({j \in DOMAIN unit.jobs : unit.jobs[j].st = "running"})
          <= MAX_PARALLEL_ASSET_DOWNLOADS
    /\ \A a \in Assets :
          PoolRunningFiles(a, Len(unit.jobs)) <= MAX_PARALLEL_DOWNLOADS_PER_ASSET

\* C14: a file download that starts while its temp path or its final path
\* exists returns ok=true at once, without a request, with status DONE and
\* size_downloaded = size_expected, and leaves the files on disk as they are;
\* this holds for every call, a repeated one included.
C14_ExistingFileShortcut ==
    [][\A r \in RunIds : \A i \in DlIds(r) :
          LET d == Dl(r)[i]
          IN  (/\ d.fut = "pending"
               /\ runs'[r].dl[i].fut \in {"running", "done"}
               /\ \/ temp[Path(d)] # Absent
                  \/ final[Path(d)] # Absent)
                  => /\ runs'[r].dl[i].pc = "ret_exists"
                     /\ runs'[r].dl[i].fut = "done"
                     /\ ResOk(runs'[r].dl[i])
                     /\ runs'[r].dl[i].status = "DONE"
                     /\ runs'[r].dl[i].size_downloaded = d.size_expected
                     /\ temp' = temp
                     /\ final' = final
                     /\ env' = env]_vars

\* The shortcut taken by a file whose temp path exists and by a file whose
\* final path exists.
C14_Witness ==
    \E r \in RunIds : \E i, j \in DlIds(r) :
        /\ Dl(r)[i].pc = "ret_exists"
        /\ Dl(r)[j].pc = "ret_exists"
        /\ temp[Path(Dl(r)[i])] # Absent
        /\ final[Path(Dl(r)[j])] # Absent

\* C15: when the streaming loop of a file download has ended (without a
\* write error), the download reports success exactly if size_downloaded =
\* size_expected = Content-Length; otherwise it returns ok=false and its
\* temp file is no longer on disk.
C15_SizeCheckAfterStream ==
    [][\A r \in RunIds : \A i \in DlIds(r) :
          LET d == Dl(r)[i]
              e == runs'[r].dl[i]
          IN  (/\ d.pc = "stream"
               /\ e.pc \notin {"stream", "ret_write"})
                  => IF /\ e.size_downloaded = e.size_expected
                        /\ e.size_downloaded = d.stream_size
                     THEN e.pc = "ret_ok" /\ ResOk(e) /\ e.status = "DONE"
                     ELSE /\ e.pc = "ret_mismatch"
                          /\ ~ResOk(e)
                          /\ temp'[Path(d)] = Absent]_vars

\* C16: when a file download returns ok=false, for whatever reason, its temp
\* file is absent or holds the complete content.
C16_NoPartialTempAfterFailure ==
    [][\A r \in RunIds : \A i \in DlIds(r) :
          LET d == Dl(r)[i]
              e == runs'[r].dl[i]
          IN  (/\ d.fut \in {"pending", "running"}
               /\ e.fut = "done"
               /\ e.pc \in {"ret_request", "ret_nostart", "ret_write",
                             "ret_mismatch"})
                  => \/ temp'[Path(d)] = Absent
                     \/ temp'[Path(d)] = d.size_expected]_vars

\* C17: a file download whose stream response has no Content-Length header
\* returns an ok=false response: a download that ends before it has opened
\* its temp file, the already-exists shortcut aside, ends by a return and not
\* by an exception; and a run that polls such a file ends with its asset
\* removed from download_queue.
C17_MissingLengthIsError ==
    [][\A r \in RunIds :
          /\ \A i \in DlIds(r) :
                LET d == Dl(r)[i]
                    e == runs'[r].dl[i]
                IN  (d.fut = "pending" /\ e.fut = "done" /\ e.pc # "ret_exists")
                        => e.pc = "ret_request" /\ ~ResOk(e) /\ ~FutExc(e)
          /\ (/\ runs[r].pc = "poll"
              /\ RunEnded(runs'[r])
              /\ \E i \in DlIds(r) :
                     FutExc(Dl(r)[i]) /\ Dl(r)[i].status = "WAITING")
                 => download_queue'[runs[r].asset] = NoEntry]_vars

\* C18: for every input order, the list that schedule_downloads submits
\* holds the files of the input in non-decreasing size_expected order, and
\* the file downloads are started in the order of that list; they may end
\* in any order.
C18_SubmittedBySize ==
    unit.pc = "scheduled"
        => /\ Len(unit.dl) = Len(unit.input)
           /\ \A i \in DOMAIN unit.input : \E j \in DOMAIN unit.dl :
                  /\ unit.dl[j].file = i
                  /\ unit.dl[j].size_expected = unit.input[i].size_expected
           /\ \A i, j \in DOMAIN unit.dl :
                  i < j => unit.dl[i].size_expected <= unit.dl[j].size_expected
           /\ Len(unit.started) <= Len(unit.dl)
           /\ \A k \in DOMAIN unit.started : unit.started[k] = unit.dl[k].file

\* An input in decreasing size order, all of its files started, the file
\* started last done before the one started first.
C18_Witness ==
    /\ unit.pc = "scheduled"
    /\ Len(unit.input) = MaxSortLen
    /\ \A i \in 1..(MaxSortLen - 1) :
          unit.input[i].size_expected > unit.input[i + 1].size_expected
    /\ Len(unit.started) = MaxSortLen
    /\ unit.dl[MaxSortLen].fut = "done"
    /\ unit.dl[1].fut = "running"

\* C19: after update_asset(id, partial) returns for an asset of the index,
\* every mergeable AssetData field and every field of the texture payload
\* holds partial's value where that is not None and its previous value
\* otherwise; without purge_maps every texture map stored before is still
\* stored (by key), and with purge_maps and a partial texture payload the
\* stored maps are exactly the partial's.
C19_MergeFieldByField ==
    (unit.pc = "returned" /\ 1 \in DOMAIN unit.all_assets) =>
        LET after == unit.all_assets[1]
            old == unit.before
            new == unit.asset_data_new
        IN  /\ \A f \in AssetFields :
                  after[f] = IF new[f] # None THEN new[f] ELSE old[f]
            /\ \A f \in TextureFields :
                  after.texture[f] =
                      IF new.texture # None /\ new.texture[f] # None
                      THEN new.texture[f] ELSE old.texture[f]
            /\ ~unit.purge_maps =>
                  \A w \in DOMAIN old.texture.maps :
                      /\ w \in DOMAIN after.texture.maps
                      /\ \A i \in DOMAIN old.texture.maps[w] :
                            \E j \in DOMAIN after.texture.maps[w] :
                                after.texture.maps[w][j].key =
                                    old.texture.maps[w][i].key
            /\ (unit.purge_maps /\ new.texture # None) =>
                  after.texture.maps = new.texture.maps

\* C20: update_from_directory(id, dir) returns true exactly when at least
\* one file of the directory was classified as a texture map or as a mesh;
\* when it returns true the asset's is_local is True and downloaded_at is
\* the time of the call, and when it returns false both are as before.
C20_FoundIffClassified ==
    unit.pc = "returned" =>
        LET found == _analyze_files(unit.dir_asset, "REGULAR")
            after == unit.all_assets[1]
        IN  /\ unit.files_found <=>
                  (DOMAIN found.texture_maps # {} \/ found.meshes # <<>>)
            /\ unit.files_found =>
                  /\ after.is_local = <<TRUE>>
                  /\ after.downloaded_at = <<"now">>
            /\ ~unit.files_found =>
                  /\ after.is_local = unit.before.is_local
                  /\ after.downloaded_at = unit.before.downloaded_at

\* C21: query(key, chunk, chunk_size, fail_on_miss=True) with a key that has
\* a composite key returns None exactly when the composite key is not in
\* cached_queries, returns the cached list (the empty list for a key cached
\* with zero results) when it is, and changes neither all_assets nor
\* cached_queries.
C21_MissIsNone ==
    [][(unit'.op.name = "query" /\ ~unit'.op.raised /\ unit'.op.ret[2]) =>
          LET query_tuple == _query_key_to_tuple(unit'.op.ret[1], 1, 2)
              ret == unit'.op.ret[3]
          IN  /\ (ret = None) <=> (query_tuple \notin DOMAIN unit.cached_queries)
              /\ query_tuple \in DOMAIN unit.cached_queries =>
                     ret = <<"list", unit.cached_queries[query_tuple]>>
              /\ unit'.all_assets = unit.all_assets
              /\ unit'.cached_queries = unit.cached_queries]_vars

C21_Witness ==
    /\ unit.op.name = "query" /\ ~unit.op.raised /\ unit.op.ret[2]
    /\ unit.op.ret[3] = None
    /\ \E k \in DOMAIN unit.cached_queries : unit.cached_queries[k] = <<>>

\* C22: when mark_purchased makes an asset of the index purchased, every
\* cached query of the my_assets tab is afterwards either gone from
\* cached_queries or lists the asset (for the queries it belongs to: here
\* the ones without category and search).
C22_NoStaleQuery ==
    [][(/\ unit'.op.name = "mark_purchased"
        /\ unit'.all_assets # unit.all_assets
        /\ unit.all_assets[unit'.op.ret[1]].is_purchased # <<TRUE>>) =>
          \A k \in DOMAIN unit.cached_queries :
              (k[1] = <<"my_assets">> /\ k[2] = None /\ k[3] = None
                   /\ k[4] = None) =>
                  \/ k \notin DOMAIN unit'.cached_queries
                  \/ \E j \in DOMAIN unit'.cached_queries[k] :
                         unit'.cached_queries[k][j] = unit'.op.ret[1]]_vars

\* C25: the asset_id, asset_type and asset_name stored for an asset are
\* those of its insertion, after every call on the index; an update_asset
\* call for a stored asset with data of another id, name or type raises
\* and leaves all_assets as it was.
C25_IdentityKept ==
    [][/\ \A i \in DOMAIN unit'.all_assets :
              Identity(unit'.all_assets[i]) = unit'.first[i]
       /\ (/\ unit'.op.name = "update_asset"
           /\ unit' # unit
           /\ unit'.op.ret[1] \in DOMAIN unit.all_assets
           /\ unit'.op.ret[2] # Identity(unit.all_assets[unit'.op.ret[1]])) =>
              /\ unit'.op.raised
              /\ unit'.all_assets = unit.all_assets]_vars

C25_Witness ==
    /\ unit.op.name = "update_asset" /\ unit.op.raised
    /\ unit.op.ret[1] \in DOMAIN unit.all_assets
    /\ unit.op.ret[2][3] # unit.all_assets[unit.op.ret[1]].asset_name
    /\ unit.all_assets[unit.op.ret[1]].is_purchased = <<TRUE>>

\* C23: when the catalog fetch, the purchase and the download thread have
\* all ended, the index entry of the asset has every update one of them
\* made: it is purchased when mark_purchased flagged it or the fetch was of
\* the my_assets tab, local and stamped when update_from_directory found
\* files, and has the fetched display name when the fetch wrote it.
C23_NoLostUpdate ==
    (\A t \in IndexThreads : unit.thr[t].pc \in {"done", "raised"}) =>
        /\ unit.thr["purchase"].wrote =>
              /\ unit.all_assets # 0
              /\ unit.objs[unit.all_assets]["is_purchased"] = <<TRUE>>
              /\ unit.objs[unit.all_assets]["purchased_at"] = <<"now">>
        /\ unit.thr["download"].wrote =>
              /\ unit.all_assets # 0
              /\ unit.objs[unit.all_assets]["is_local"] = <<TRUE>>
              /\ unit.objs[unit.all_assets]["downloaded_at"] = <<"now">>
        /\ unit.thr["fetch"].wrote =>
              /\ unit.all_assets # 0
              /\ unit.objs[unit.all_assets]["display_name"] = <<"api">>
              /\ unit.my_assets =>
                    unit.objs[unit.all_assets]["is_purchased"] = <<TRUE>>

\* C24: load_cache after save_cache returns, and all_assets is then equal,
\* field for field, to the all_assets that was saved.
C24_CacheRoundTrip ==
    unit.pc \in {"loaded", "raised"} =>
        /\ unit.pc = "loaded"
        /\ unit.all_assets = unit.saved

\* C26: get_size returns the requested size when it is "WM" or available;
\* otherwise, with no size available, it raises KeyError; otherwise it returns
\* the available size nearest to the requested one by position in SIZES, and
\* of two equally near sizes the one that comes first in SIZES.
C26_ClosestSize ==
    unit.pc = "done" =>
        IF unit.size = "WM" \/ unit.size \in unit.sizes
        THEN unit.raised = None /\ unit.ret = <<unit.size>>
        ELSE IF unit.sizes = {}
        THEN unit.raised = <<"KeyError">>
        ELSE /\ unit.raised = None
             /\ \E s \in unit.sizes :
                   /\ unit.ret = <<s>>
                   /\ \A o \in unit.sizes :
                         LET w == SIZES_index(unit.size)
                             far(i) == IF i >= w THEN i - w ELSE w - i
                             ds == far(SIZES_index(s))
                             do == far(SIZES_index(o))
                         IN  \/ ds < do
                             \/ ds = do /\ SIZES_index(s) <= SIZES_index(o)

\* "3K" asked of a texture with 2K and 4K, equally near, has given "2K"
C26_Witness ==
    /\ unit.pc = "done"
    /\ unit.size = "3K"
    /\ unit.sizes = {"2K", "4K"}
    /\ unit.ret = <<"2K">>

\* the key a get_pool or queue_thread call recorded in op addresses
TMKeyOf(op) ==
    IF op.name = "get_pool" THEN op.args[1]
    ELSE IF op.args[2] = None THEN "INTERACTIVE" ELSE op.args[2][1]

TMPooled(op) ==
    \/ op.name = "get_pool"
    \/ op.name = "queue_thread" /\ ~op.args[4]

TMPoolOf(op) == IF op.name = "get_pool" THEN op.ret[1] ELSE op.ret[2]

\* C27: a get_pool or (pooled) queue_thread call for a key that has a pool
\* returns or uses that very pool, whatever max_threads it passes, and leaves
\* the registry and the pool's worker count as they were.
C27_PoolSizeFixed ==
    [][\A k \in DOMAIN unit.tm.thread_pools :
          (TMPooled(unit'.op) /\ TMKeyOf(unit'.op) = k) =>
              LET tpe == unit.tm.thread_pools[k]
              IN  /\ unit'.op.raised = None
                  /\ unit'.op.ret # None
                  /\ TMPoolOf(unit'.op) = tpe
                  /\ unit'.tm.thread_pools = unit.tm.thread_pools
                  /\ Len(unit'.tm.pools) = Len(unit.tm.pools)
                  /\ unit'.tm.pools[tpe].max_workers
                        = unit.tm.pools[tpe].max_workers]_vars

\* queue_thread asked for MAX_PARALLEL_ASSET_DOWNLOADS workers and got the
\* registered pool of DEFAULT_MAX_THREADS workers
C27_Witness ==
    /\ unit.op.name = "queue_thread"
    /\ ~unit.op.args[4]
    /\ unit.op.args[3] = <<MAX_PARALLEL_ASSET_DOWNLOADS>>
    /\ unit.op.ret # None
    /\ unit.tm.pools[unit.op.ret[2]].max_workers = DEFAULT_MAX_THREADS

\* C28: shutdown(key) takes that key, and no other, out of the registry;
\* shutdown() leaves the registry empty; the pools taken out are shut down;
\* and a queue_thread for a key that was taken out registers a new pool for it.
C28_ShutdownRemoves ==
    [][/\ unit'.op.name = "shutdown" =>
            /\ unit'.op.raised = None
            /\ IF unit'.op.args[1] = None
               THEN unit'.tm.thread_pools = <<>>
               ELSE unit'.tm.thread_pools =
                       [k \in DOMAIN unit.tm.thread_pools
                              \ {unit'.op.args[1][1]} |->
                           unit.tm.thread_pools[k]]
            /\ \A k \in DOMAIN unit.tm.thread_pools
                        \ DOMAIN unit'.tm.thread_pools :
                  unit'.tm.pools[unit.tm.thread_pools[k]].shut
       /\ ( /\ unit'.op.name = "queue_thread"
            /\ ~unit'.op.args[4]
            /\ TMKeyOf(unit'.op) \in unit.removed
            /\ TMKeyOf(unit'.op) \notin DOMAIN unit.tm.thread_pools ) =>
            LET k == TMKeyOf(unit'.op)
            IN  /\ unit'.op.raised = None
                /\ k \in DOMAIN unit'.tm.thread_pools
                /\ unit'.tm.thread_pools[k] = Len(unit.tm.pools) + 1
                /\ Len(unit'.tm.pools) = Len(unit.tm.pools) + 1
                /\ ~unit'.tm.pools[unit'.tm.thread_pools[k]].shut
                /\ unit'.op.ret[2] = unit'.tm.thread_pools[k]]_vars

\* the pool of ASSET_DL was shut down and removed, and queue_thread has made
\* a second one for it
C28_Witness ==
    /\ unit.op.name = "queue_thread"
    /\ unit.op.args[2] = <<"ASSET_DL">>
    /\ "ASSET_DL" \in unit.removed
    /\ "ASSET_DL" \in DOMAIN unit.tm.thread_pools
    /\ unit.tm.thread_pools["ASSET_DL"] = Len(unit.tm.pools)
    /\ \E i \in DOMAIN unit.tm.pools : unit.tm.pools[i].shut

\* C29 as stated: queue_thread does not raise, in pooled and in foreground
\* mode, and the exception of a function that raises is held by the handle
\* it returns.
C29_NeverRaises ==
    unit.op.name = "queue_thread" =>
        /\ unit.op.raised = None
        /\ unit.op.args[1] = "raises" =>
              /\ unit.op.ret # None
              /\ unit.op.ret[1] = "Future"
              /\ unit.op.ret[3] = "raises"

\* C29 amended: a pooled queue_thread does not raise and returns the Future
\* of the submitted function, which holds the function's exception; a
\* foreground queue_thread returns what the function returns and raises what
\* the function raises.
C29_PooledNeverRaises ==
    unit.op.name = "queue_thread" =>
        IF unit.op.args[4]
        THEN IF unit.op.args[1] = "raises"
             THEN unit.op.raised # None /\ unit.op.ret = None
             ELSE unit.op.raised = None /\ unit.op.ret = <<"value", "returns">>
        ELSE /\ unit.op.raised = None
             /\ unit.op.ret # None
             /\ unit.op.ret[1] = "Future"
             /\ unit.op.ret[3] = unit.op.args[1]
             /\ unit.tm.thread_pools[TMKeyOf(unit.op)] = unit.op.ret[2]

\* a function that raises was submitted to a pool and queue_thread returned
\* its Future
C29_Witness ==
    /\ unit.op.name = "queue_thread"
    /\ unit.op.args[1] = "raises"
    /\ ~unit.op.args[4]
    /\ unit.op.ret[1] = "Future"


\* C30: when the answer to a request shows that its token was invalidated,
\* the stored token is cleared, and the on-invalidated callback is invoked
\* once if this is the first request to see that invalidation and not at all
\* if another request has seen it before; no other step invokes the callback.
C30_InvalidatedOnce ==
    [][IF \E r \in Requests :
             /\ unit.req[r].pc = "sent"
             /\ unit'.req[r].pc = "done"
             /\ unit.req[r].login \notin unit.valid
       THEN \E r \in Requests :
               /\ unit.req[r].pc = "sent"
               /\ unit'.req[r].pc = "done"
               /\ unit'.token = None
               /\ unit'.calls = IF unit.req[r].login \in unit.detected
                                THEN unit.calls ELSE unit.calls + 1
       ELSE unit'.calls = unit.calls]_vars


C32_StatusLifecycle ==
    [][\A r \in RunIds : \A i \in DlIds(r) :
          (runs[r].pc # "resolving" /\ i \in DOMAIN runs'[r].dl) =>
              LET old == Dl(r)[i].status
                  new == runs'[r].dl[i].status
              IN  old # new =>
                     /\ new = "ONGOING" => old = "WAITING"
                     /\ new \in {"DONE", "ERROR"} => old = "ONGOING"]_vars

\* the maps of a type payload: those of its Texture objects
PayloadTextures(asset) ==
    LET t == get_type_data(asset)
    IN  CASE asset.asset_type = <<"BRUSH">> -> {t.alpha}
          [] asset.asset_type = <<"HDRI">> -> {t.bg, t.light}
          [] asset.asset_type = <<"MODEL">> -> {t.texture}
          [] OTHER -> {t}

OneMapPerKey(asset) ==
    \A tex \in PayloadTextures(asset) \ {None} :
        \A w \in DOMAIN tex.maps :
            \A i, j \in DOMAIN tex.maps[w] :
                tex.maps[w][i].key = tex.maps[w][j].key => i = j

\* C33: after the maps found by a scan have been merged into an asset whose
\* workflows held at most one map per key (map_type, size, variant, lod), no
\* workflow of the asset holds two maps with the same key.
C33_OneMapPerKey ==
    (unit.pc = "returned" /\ OneMapPerKey(unit.before)) =>
        OneMapPerKey(unit.all_assets[1])

\* C34: in every step in which download_asset_file returns a response, the
\* status of its descriptor is DONE when the response has ok=true, and ERROR
\* or CANCELLED when it has ok=false; it is never WAITING or ONGOING.
C34_StatusMatchesResult ==
    [][\A r \in RunIds : \A i \in DlIds(r) :
          LET old == Dl(r)[i]
              new == runs'[r].dl[i]
          IN  (/\ i \in DOMAIN runs'[r].dl
               /\ old.fut # "done"
               /\ new.fut = "done"
               /\ new.pc # "raised") =>
                  IF new.pc \in {"ret_exists", "ret_ok"}
                  THEN new.status = "DONE"
                  ELSE new.status \in {"ERROR", "CANCELLED"}]_vars

\* C35: a cancel affects only the download that is queued or running when it
\* is made.  In the step in which a run ends, its asset id is not left in
\* download_cancelled; and a run that starts while queue_download has not yet
\* returned, for which no cancel can have been made, is not dropped at start
\* by a cancel that was recorded before it was queued.
C35_CancelOnlyCurrent ==
    [][\A r \in RunIds :
          LET a == runs[r].asset
          IN  /\ (~RunEnded(runs[r]) /\ RunEnded(runs'[r])) =>
                     a \notin download_cancelled'
              /\ (/\ ui.pc = "set_future" /\ ui.run = r
                  /\ runs[r].pc = "pending"
                  /\ runs'[r].pc # "pending") =>
                     a \notin download_cancelled]_vars

\* C37: queue_download never fails when it records the future: in every
\* step in which it stores the future, whatever the scheduled run has done
\* in between, the queue entry of the asset still exists and no KeyError is
\* raised.
C37_EntryExistsForFuture ==
    [][(ui.pc = "set_future" /\ ui'.pc # "set_future") =>
          /\ download_queue[ui.asset] # NoEntry
          /\ ~ui'.raised]_vars

PurchaseEnded(job) == job.pc \in {"done", "raised"}

\* C36: for every interleaving of queue_purchase with the purchase worker:
\* the worker's removal from purchase_queue never fails; a purchase whose
\* request was successful has marked the asset purchased once the worker has
\* ended; and once every purchase of an asset has ended and queue_purchase
\* has returned, the asset id is not in purchase_queue.
C36_PurchaseQueueCleared ==
    /\ \A j \in DOMAIN unit.jobs :
          /\ unit.jobs[j].pc # "raised"
          /\ (PurchaseEnded(unit.jobs[j]) /\ unit.jobs[j].ok) =>
                unit.is_purchased[unit.jobs[j].asset] = <<TRUE>>
    /\ \A a \in Assets :
          (/\ unit.caller.pc = "idle"
           /\ \A j \in DOMAIN unit.jobs :
                 unit.jobs[j].asset = a => PurchaseEnded(unit.jobs[j])) =>
              ~is_purchase_queued(unit.purchase_queue, a)

\* C38: after any sequence of populate_assets, load_asset, flush and
\* load_cache, every asset id in a result list of cached_queries is a key of
\* all_assets.
C38_CachedIdsIndexed ==
    \A query_tuple \in DOMAIN unit.cached_queries :
        \A i \in DOMAIN unit.cached_queries[query_tuple] :
            unit.cached_queries[query_tuple][i] \in DOMAIN unit.all_assets

\* C40: a load_cache that fails (no cache path, no file, or an entry of the
\* file that cannot be decoded) leaves all_assets as it was before the call.
C40_FailedLoadKeepsIndex ==
    (unit.op.name = "load_cache" /\ unit.op.raised) =>
        unit.all_assets = unit.before

Purchased(all_assets) ==
    {asset_id \in DOMAIN all_assets :
        all_assets[asset_id].is_purchased = <<TRUE>>}

====
